---- MODULE Spec2Model ----
(***************************************************************************)
(* Model of the runtime-upgrade orchestrator of lal-lambda-tools:          *)
(*   src/src/commands/upgrade.ts   upgradeRuntimes (lines 278-507)         *)
(*   src/src/helpers/awsUtils.ts   getRuntimeFamily, isFamily,             *)
(*                                 validateAndGetRuntimeFamily,            *)
(*                                 getLastInvocation, waitForUpdate        *)
(* and of the stack check of the deployment path:                          *)
(*   src/src/commands/list-layers.ts   checkStackExists, deployLambda      *)
(*                                                                         *)
(* upgradeRuntimes is an async function on a single-threaded event loop.   *)
(* A state of the model is a point where the function is suspended on an   *)
(* await (pc names what is awaited); an action is the arrival of the       *)
(* awaited answer together with all the synchronous code that runs until   *)
(* the next await, return or throw.                                        *)
(*                                                                         *)
(* A runtime string is a sequence of one-character strings, so that        *)
(* toLowerCase, startsWith, split and the two regular expressions are      *)
(* computed character by character.  Function names and layer ARNs are     *)
(* opaque and are plain strings.  An absent (undefined / null) runtime and *)
(* the empty string are both falsy in every place the code reads them and  *)
(* are both the empty sequence.                                            *)
(***************************************************************************)
EXTENDS Integers, Sequences, FiniteSets, TLC

VARIABLES
    options,            \* UpgradeOptions: targetRuntime, all, include, layerArn
    targetFamily,       \* upgrade.ts:283
    fleet,              \* the account's functions, as list-functions answers
    pc,                 \* what upgradeRuntimes is suspended on
    threw,              \* the error upgradeRuntimes rejected with
    functions,          \* upgrade.ts:296
    candidateFunctions, \* upgrade.ts:299, sorted in place at :321
    infoByName,         \* upgrade.ts:302
    pendingLookups,     \* getLastInvocation promises not yet settled
    invocationByName,   \* upgrade.ts:317-318
    lookupAnswer,       \* what describe-log-streams answered, per function
    selectedNames,      \* upgrade.ts:335
    planned,            \* upgrade.ts:386
    toUpgrade,          \* upgrade.ts:413
    alreadyOk,          \* upgrade.ts:414
    idx,                \* position of the for-loop of upgrade.ts:456
    results,            \* upgrade.ts:454
    itemState,          \* per to-upgrade item: where it is in its life
    elapsed,            \* Date.now() - start of the running waitForUpdate
    intervalMs,         \* awsUtils.ts:91
    polled,             \* names a get-function-configuration call was issued for
    lastPoll,           \* what the latest poll of the running wait observed
    firstRun,           \* what an earlier call on the same account planned
    calls,              \* external calls and prompts issued, in order
    out,                \* what was printed, in order
    dpc,                \* what deployLambda is suspended on
    deployOptions,      \* DeployOptions: profile, region, functionName, statusOnly
    samConfigExists,    \* list-layers.ts:345
    functionName,       \* list-layers.ts:350
    stackName,          \* list-layers.ts:353
    stacksAnswer,       \* what describe-stacks answered
    stackExists,        \* list-layers.ts:367: <<>> until checkStackExists returned
    deployCommand,      \* list-layers.ts:369, as a list of words
    deployThrew         \* the error deployLambda rejected with, "" for none

upgradeVars == <<options, targetFamily, fleet, pc, threw, functions, candidateFunctions, infoByName,
          pendingLookups, invocationByName, lookupAnswer, selectedNames, planned, toUpgrade,
          alreadyOk, idx, results, itemState, elapsed, intervalMs, polled, lastPoll, firstRun,
          calls, out>>

deployVars == <<dpc, deployOptions, samConfigExists, functionName, stackName,
                stacksAnswer, stackExists, deployCommand, deployThrew>>

vars == <<upgradeVars, deployVars>>

(***************************************************************************)
(* Bounds of the model.                                                    *)
(***************************************************************************)
MaxFunctions == 3
MaxTokens == 4

(***************************************************************************)
(* Strings.                                                                *)
(***************************************************************************)
Digits == {"0", "1", "2", "3", "4", "5", "6", "7", "8", "9"}

UpperCase == <<"A", "B", "C", "D", "E", "F", "G", "H", "I", "J", "K", "L", "M",
               "N", "O", "P", "Q", "R", "S", "T", "U", "V", "W", "X", "Y", "Z">>

LowerCase == <<"a", "b", "c", "d", "e", "f", "g", "h", "i", "j", "k", "l", "m",
               "n", "o", "p", "q", "r", "s", "t", "u", "v", "w", "x", "y", "z">>

toLowerCaseChar(c) ==
    IF \E i \in DOMAIN UpperCase : UpperCase[i] = c
    THEN LowerCase[CHOOSE i \in DOMAIN UpperCase : UpperCase[i] = c]
    ELSE c

toLowerCase(s) == [i \in 1..Len(s) |-> toLowerCaseChar(s[i])]

startsWith(s, p) == Len(s) >= Len(p) /\ SubSeq(s, 1, Len(p)) = p

Str_python == <<"p", "y", "t", "h", "o", "n">>
Str_nodejs == <<"n", "o", "d", "e", "j", "s">>
Str_unknown == <<"u", "n", "k", "n", "o", "w", "n">>
Str_python3_12 == <<"p", "y", "t", "h", "o", "n", "3", ".", "1", "2">>
Str_python3_9 == <<"p", "y", "t", "h", "o", "n", "3", ".", "9">>
Str_python3_x == <<"p", "y", "t", "h", "o", "n", "3", ".", "x">>
Str_nodejs18_x == <<"n", "o", "d", "e", "j", "s", "1", "8", ".", "x">>
Str_NodeJS18_x == <<"N", "o", "d", "e", "J", "S", "1", "8", ".", "x">>
Str_nodejs20_x == <<"n", "o", "d", "e", "j", "s", "2", "0", ".", "x">>
Str_java11 == <<"j", "a", "v", "a", "1", "1">>

\* s.split(/\d|\.|-/)[0]: the part of s before its first digit, dot or hyphen
splitFirst(s) ==
    LET seps == {i \in 1..Len(s) : s[i] \in Digits \cup {".", "-"}}
    IN IF seps = {} THEN s
       ELSE SubSeq(s, 1, (CHOOSE i \in seps : \A j \in seps : i <= j) - 1)

\* The mutant of getRuntimeFamily that forgets to lower-case its argument.
getRuntimeFamily_caseSensitive(rt) ==
    IF rt = <<>> THEN <<>>
    ELSE IF startsWith(rt, Str_python) THEN Str_python
    ELSE IF startsWith(rt, Str_nodejs) THEN Str_nodejs
    ELSE IF splitFirst(rt) # <<>> THEN splitFirst(rt) ELSE rt

\* The mutant of getRuntimeFamily with one value for every other runtime.
getRuntimeFamily_noFallback(rt) ==
    LET s == toLowerCase(rt)
    IN IF startsWith(s, Str_python) THEN Str_python
       ELSE IF startsWith(s, Str_nodejs) THEN Str_nodejs
       ELSE <<"u", "n", "s", "u", "p", "p", "o", "r", "t", "e", "d">>

\* awsUtils.ts:49-56; the result null is the empty sequence
getRuntimeFamily(rt) ==
    IF rt = <<>> THEN <<>>
    ELSE LET s == toLowerCase(rt)
         IN IF startsWith(s, Str_python) THEN Str_python
            ELSE IF startsWith(s, Str_nodejs) THEN Str_nodejs
            ELSE IF splitFirst(s) # <<>> THEN splitFirst(s) ELSE s

\* The mutant of isFamily that derives the family without lower-casing.
isFamily_caseSensitive(runtime, family) ==
    getRuntimeFamily_caseSensitive(runtime) = family

\* awsUtils.ts:58-61
isFamily(runtime, family) == getRuntimeFamily(runtime) = family

AllDigits(s) == \A i \in 1..Len(s) : s[i] \in Digits

\* /^python3\.\d+$/.test(s)
Python3Prefix == <<"p", "y", "t", "h", "o", "n", "3", ".">>
testPythonPattern(s) ==
    /\ startsWith(s, Python3Prefix)
    /\ Len(s) > Len(Python3Prefix)
    /\ AllDigits(SubSeq(s, Len(Python3Prefix) + 1, Len(s)))

\* /^nodejs\d+\.x$/.test(s)
testNodejsPattern(s) ==
    /\ startsWith(s, Str_nodejs)
    /\ Len(s) >= Len(Str_nodejs) + 3
    /\ SubSeq(s, Len(s) - 1, Len(s)) = <<".", "x">>
    /\ AllDigits(SubSeq(s, Len(Str_nodejs) + 1, Len(s) - 2))

\* awsUtils.ts:65-68
rules == << [family |-> Str_python, example |-> Str_python3_12],
            [family |-> Str_nodejs, example |-> Str_nodejs20_x] >>

patternTest(rule, s) ==
    IF rule.family = Str_python THEN testPythonPattern(s) ELSE testNodejsPattern(s)

NoError == [kind |-> "none", runtime |-> <<>>, family |-> <<>>, example |-> <<>>]

\* awsUtils.ts:64-79; a throw is the record's error, kind # "none"
validateAndGetRuntimeFamily(targetRuntime) ==
    LET got == getRuntimeFamily(targetRuntime)
        family == IF got = <<>> THEN Str_unknown ELSE got
        found == {i \in DOMAIN rules : rules[i].family = family}
    IN IF found = {}
       THEN [family |-> <<>>,
             error |-> [kind |-> "Unsupported", runtime |-> targetRuntime,
                        family |-> <<>>, example |-> <<>>]]
       ELSE LET rule == rules[CHOOSE i \in found : \A j \in found : i <= j]
            IN IF ~patternTest(rule, targetRuntime)
               THEN [family |-> <<>>,
                     error |-> [kind |-> "InvalidFormat", runtime |-> targetRuntime,
                                family |-> rule.family, example |-> rule.example]]
               ELSE [family |-> family, error |-> NoError]

(***************************************************************************)
(* Inputs: the account and the command line.                               *)
(***************************************************************************)
Range(s) == {s[i] : i \in DOMAIN s}

FnA == [Name |-> "A", Runtime |-> Str_python3_9, Layers |-> <<>>]
FnB == [Name |-> "B", Runtime |-> Str_python3_12, Layers |-> <<"L1">>]
FnC == [Name |-> "C", Runtime |-> Str_nodejs18_x, Layers |-> <<"L2">>]
FnD == [Name |-> "D", Runtime |-> Str_NodeJS18_x, Layers |-> <<"L1", "L2">>]
FnE == [Name |-> "E", Runtime |-> <<>>, Layers |-> <<>>]


PoolInOrder == <<FnA, FnB, FnC, FnD, FnE>>
Pool == Range(PoolInOrder)

Reverse(s) == [i \in 1..Len(s) |-> s[Len(s) + 1 - i]]

\* f lists functions of the pool, each at most once, in the pool's order
InPoolOrder(f) ==
    \A i, j \in DOMAIN f :
        i < j => \E k, m \in DOMAIN PoolInOrder :
                    k < m /\ PoolInOrder[k] = f[i] /\ PoolInOrder[m] = f[j]

\* list-functions answers: at most MaxFunctions functions of the pool, each
\* once, in the pool's order or in the reverse order, so that every two
\* functions are listed both ways round
Fleets ==
    {f \in UNION {[1..n -> Pool] : n \in 0..MaxFunctions} :
        InPoolOrder(f) \/ InPoolOrder(Reverse(f))}

Targets == {Str_python3_12, Str_python3_9, Str_nodejs18_x, Str_python3_x, Str_java11}
Includes == {<<>>, <<"A", "Z">>, <<"D", "C">>}
LayerArns == {"", "L1"}

OptionSets == [targetRuntime : Targets, all : BOOLEAN, include : Includes,
               layerArn : LayerArns]

EmptyMap == [n \in {} |-> {}]

NamesOf(fs) == [i \in DOMAIN fs |-> fs[i].Name]

\* Array.prototype.filter
RECURSIVE filter(_, _)
filter(s, keep) ==
    IF s = <<>> THEN <<>>
    ELSE IF Head(s) \in keep THEN <<Head(s)>> \o filter(Tail(s), keep)
    ELSE filter(Tail(s), keep)

Out(tag, names, a, b, text) ==
    [tag |-> tag, names |-> names, a |-> a, b |-> b, text |-> text]

Call(op, name, runtime, layers) ==
    [op |-> op, name |-> name, runtime |-> runtime, layers |-> layers]

\* No earlier call
NoRun == [ran |-> FALSE]

\* No get-function-configuration call of the running wait has answered
NoPoll == [status |-> "none", inBudget |-> TRUE]

\* deployLambda has not been called
NoDeployOptions ==
    [profile |-> "", region |-> "", functionName |-> "", statusOnly |-> FALSE]

\* No describe-stacks answer yet
NoAnswer == [kind |-> "none", message |-> {}, stacks |-> <<>>]

\* deployLambda is at its entry: list-layers.ts:300
DeployStart ==
    /\ dpc = "start"
    /\ samConfigExists = FALSE
    /\ functionName = ""
    /\ stackName = ""
    /\ stacksAnswer = NoAnswer
    /\ stackExists = <<>>
    /\ deployCommand = <<>>
    /\ deployThrew = ""

DeployIdle ==
    /\ deployOptions = NoDeployOptions
    /\ DeployStart

\* Nothing has run yet
Idle ==
    /\ targetFamily = <<>>
    /\ pc = "start"
    /\ threw = NoError
    /\ functions = <<>>
    /\ candidateFunctions = <<>>
    /\ infoByName = EmptyMap
    /\ pendingLookups = {}
    /\ invocationByName = EmptyMap
    /\ lookupAnswer = EmptyMap
    /\ selectedNames = <<>>
    /\ planned = <<>>
    /\ toUpgrade = <<>>
    /\ alreadyOk = <<>>
    /\ idx = 0
    /\ results = <<>>
    /\ itemState = EmptyMap
    /\ elapsed = 0
    /\ intervalMs = 0
    /\ polled = {}
    /\ lastPoll = NoPoll
    /\ calls = <<>>
    /\ out = <<>>

Init ==
    /\ options \in OptionSets
    /\ fleet \in Fleets
    /\ firstRun = NoRun
    /\ DeployIdle
    /\ Idle

\* upgrade.ts:501-503: the catch block reports and rethrows
Throw(error) ==
    /\ pc' = "threw"
    /\ threw' = error
    /\ out' = Append(out, Out("UpgradeFailed", <<>>, 0, 0, error.kind))

Failure(kind) == [kind |-> kind, runtime |-> <<>>, family |-> <<>>, example |-> <<>>]

\* The mutant of Invoke that checks the credentials before the target runtime.
Invoke_validateLate ==
    /\ pc = "start"
    /\ LET v == validateAndGetRuntimeFamily(options.targetRuntime)
       IN /\ calls' = Append(calls, Call("sts", "", <<>>, ""))
          /\ IF v.error.kind # "none"
             THEN /\ Throw(v.error)
                  /\ UNCHANGED targetFamily
             ELSE /\ targetFamily' = v.family
                  /\ pc' = "awaitCreds"
                  /\ UNCHANGED <<threw, out>>
    /\ UNCHANGED <<lastPoll, firstRun, deployVars, options, fleet, functions, candidateFunctions, infoByName,
                   pendingLookups, invocationByName, lookupAnswer, selectedNames, planned,
                   toUpgrade, alreadyOk, idx, results, itemState, elapsed,
                   intervalMs, polled>>

(***************************************************************************)
(* upgradeRuntimes is called: upgrade.ts:279-286, up to the await of the   *)
(* STS call inside validateDeployOptions (validateDeployOptions.ts:41-64). *)
(* schemaOk is the outcome of the zod parse of profile and region, which   *)
(* precedes the STS call.                                                  *)
(***************************************************************************)
Invoke ==
    /\ pc = "start"
    /\ LET v == validateAndGetRuntimeFamily(options.targetRuntime)
       IN IF v.error.kind # "none"
          THEN /\ Throw(v.error)
               /\ UNCHANGED <<targetFamily, calls>>
          ELSE \E schemaOk \in BOOLEAN :
                  /\ targetFamily' = v.family
                  /\ IF schemaOk
                     THEN /\ calls' = Append(calls, Call("sts", "", <<>>, ""))
                          /\ pc' = "awaitCreds"
                          /\ UNCHANGED <<threw, out>>
                     ELSE /\ Throw(Failure("DeployOptions"))
                          /\ UNCHANGED calls
    /\ UNCHANGED <<lastPoll, firstRun, deployVars, options, fleet, functions, candidateFunctions, infoByName,
                   pendingLookups, invocationByName, lookupAnswer, selectedNames, planned,
                   toUpgrade, alreadyOk, idx, results, itemState, elapsed,
                   intervalMs, polled>>

\* validateDeployOptions.ts:64-85, then upgrade.ts:289-296 up to the await
CredsResponse ==
    /\ pc = "awaitCreds"
    /\ \E ok \in BOOLEAN :
          IF ok
          THEN /\ calls' = Append(calls, Call("list", "", <<>>, ""))
               /\ pc' = "awaitList"
               /\ UNCHANGED <<threw, out>>
          ELSE /\ Throw(Failure("Credentials"))
               /\ UNCHANGED calls
    /\ UNCHANGED <<lastPoll, firstRun, deployVars, options, targetFamily, fleet, functions, candidateFunctions,
                   infoByName, pendingLookups, invocationByName, lookupAnswer, selectedNames,
                   planned, toUpgrade, alreadyOk, idx, results, itemState,
                   elapsed, intervalMs, polled>>

(***************************************************************************)
(* Inventory: the answer of list-functions, the concurrent last-invocation *)
(* lookups, the join and the sort.                                         *)
(***************************************************************************)
Timestamps == {1, 2}

\* What describe-log-streams can answer: the call fails, there is no log
\* stream or event, the newest event's timestamp, or a timestamp that is no
\* number.
LookupAnswers ==
    {[kind |-> "throws", ts |-> 0], [kind |-> "none", ts |-> 0],
     [kind |-> "garbled", ts |-> 0]}
        \cup {[kind |-> "event", ts |-> t] : t \in Timestamps}

\* What describe-log-streams can answer for the function n: a second call
\* on the unchanged account gets the answers of the first
lookupAnswersFor(n) ==
    IF firstRun.ran THEN {firstRun.answers[n]} ELSE LookupAnswers

\* The mutant of getLastInvocation that reports a failed lookup as "never".
getLastInvocation_failsAsNever(answer) ==
    IF answer.kind \in {"throws", "none"} THEN [display |-> "never", ts |-> 0]
    ELSE IF answer.kind = "garbled" THEN [display |-> "unknown", ts |-> 0]
    ELSE [display |-> "ago", ts |-> answer.ts]

\* awsUtils.ts:26-46; the timestamp null is 0, which no event has
getLastInvocation(answer) ==
    IF answer.kind = "throws" THEN [display |-> "unknown", ts |-> 0]
    ELSE IF answer.kind = "none" THEN [display |-> "never", ts |-> 0]
    ELSE IF answer.kind = "garbled" THEN [display |-> "unknown", ts |-> 0]
    ELSE [display |-> "ago", ts |-> answer.ts]

\* upgrade.ts:322-323: invocationByName.get(name)?.ts || 0
tsOf(inv, name) == IF name \in DOMAIN inv THEN inv[name].ts ELSE 0

\* The mutant of compareInvocation that sorts the oldest invocation first.
compareInvocation_ascending(inv, a, b) == tsOf(inv, a.Name) - tsOf(inv, b.Name)

\* upgrade.ts:321-325, the comparator
compareInvocation(inv, a, b) == tsOf(inv, b.Name) - tsOf(inv, a.Name)

\* Array.prototype.sort is stable: an element goes after every element the
\* comparator does not put behind it.
RECURSIVE insertSorted(_, _, _)
insertSorted(s, x, inv) ==
    IF s = <<>> THEN <<x>>
    ELSE IF compareInvocation(inv, Head(s), x) <= 0
         THEN <<Head(s)>> \o insertSorted(Tail(s), x, inv)
         ELSE <<x>> \o s

RECURSIVE sortCandidates(_, _)
sortCandidates(s, inv) ==
    IF s = <<>> THEN <<>>
    ELSE insertSorted(sortCandidates(SubSeq(s, 1, Len(s) - 1), inv), s[Len(s)], inv)

\* The mutant of filterFamily that keeps every listed function.
filterFamily_keepsAll(fs, family) == fs

\* upgrade.ts:299
RECURSIVE filterFamily(_, _)
filterFamily(fs, family) ==
    IF fs = <<>> THEN <<>>
    ELSE IF isFamily(Head(fs).Runtime, family)
         THEN <<Head(fs)>> \o filterFamily(Tail(fs), family)
         ELSE filterFamily(Tail(fs), family)

\* upgrade.ts:302-307; a missing Layers is the empty list
buildInfoByName(cands) ==
    [n \in Range(NamesOf(cands)) |->
        LET f == CHOOSE g \in Range(cands) : g.Name = n
        IN [runtime |-> IF f.Runtime = <<>> THEN Str_unknown ELSE f.Runtime,
            layers |-> f.Layers]]

RECURSIVE lookupCalls(_)
lookupCalls(names) ==
    IF names = <<>> THEN <<>>
    ELSE <<Call("logs", Head(names), <<>>, "")>> \o lookupCalls(Tail(names))

(***************************************************************************)
(* Selection and plan: upgrade.ts:334-451, the synchronous code between    *)
(* the join (or the selection prompt's answer) and the confirmation prompt.*)
(***************************************************************************)
RECURSIVE joinQuoted(_)
joinQuoted(layers) ==
    IF layers = <<>> THEN ""
    ELSE IF Len(layers) = 1 THEN "\"" \o Head(layers) \o "\""
    ELSE "\"" \o Head(layers) \o "\"," \o joinQuoted(Tail(layers))

\* JSON.stringify of an array of strings
JSONstringify(layers) == "[" \o joinQuoted(layers) \o "]"

\* The mutant of planItem that compares the runtimes without lower-casing.
planItem_caseSensitive(n, info, opts) ==
    LET i == IF n \in DOMAIN info THEN info[n]
             ELSE [runtime |-> Str_unknown, layers |-> <<>>]
        wantsLayer == opts.layerArn # ""
    IN [name |-> n, fromRuntime |-> i.runtime, toRuntime |-> opts.targetRuntime,
        fromLayers |-> i.layers,
        toLayers |-> IF wantsLayer THEN << <<opts.layerArn>> >> ELSE <<>>,
        changeRuntime |-> i.runtime # opts.targetRuntime,
        changeLayers |-> wantsLayer /\ i.layers # <<opts.layerArn>>]

\* upgrade.ts:397-410; toLayers is <<>> when undefined, else <<the list>>
planItem(n, info, opts) ==
    LET i == IF n \in DOMAIN info THEN info[n]
             ELSE [runtime |-> Str_unknown, layers |-> <<>>]
        changeRuntime == toLowerCase(i.runtime) # toLowerCase(opts.targetRuntime)
        wantsLayer == opts.layerArn # ""
        desiredLayers == <<opts.layerArn>>
        changeLayers == IF wantsLayer
                        THEN JSONstringify(i.layers) # JSONstringify(desiredLayers)
                        ELSE FALSE
    IN [name |-> n, fromRuntime |-> i.runtime, toRuntime |-> opts.targetRuntime,
        fromLayers |-> i.layers,
        toLayers |-> IF wantsLayer THEN <<desiredLayers>> ELSE <<>>,
        changeRuntime |-> changeRuntime, changeLayers |-> changeLayers]

buildPlanned(sel, info, opts) == [k \in DOMAIN sel |-> planItem(sel[k], info, opts)]

planNames(plan) == [k \in DOMAIN plan |-> plan[k].name]

needsChange(p) == p.changeRuntime \/ p.changeLayers
isSatisfied(p) == ~p.changeRuntime /\ ~p.changeLayers

\* The mutant of filterToUpgrade that keeps every planned item.
filterToUpgrade_all(plan) == plan

\* The mutant of filterToUpgrade with a memory: what an earlier call planned
\* to upgrade is left out.
filterToUpgrade_onceOnly(plan) ==
    SelectSeq(plan, LAMBDA p :
        /\ needsChange(p)
        /\ firstRun.ran => p.name \notin Range(planNames(firstRun.toUpgrade)))

\* upgrade.ts:413
filterToUpgrade(plan) == SelectSeq(plan, needsChange)
\* upgrade.ts:414
filterAlreadyOk(plan) == SelectSeq(plan, isSatisfied)

\* The mutant of PlanAndConfirm that asks for confirmation of an empty plan.
PlanAndConfirm_noEmptyCheck(sel, out0, calls0) ==
    LET plan == buildPlanned(sel, infoByName, options)
    IN /\ selectedNames' = sel
       /\ planned' = plan
       /\ toUpgrade' = filterToUpgrade(plan)
       /\ alreadyOk' = filterAlreadyOk(plan)
       /\ out' = Append(out0, Out("PlannedUpdates",
                                  planNames(filterToUpgrade(plan)), 0, 0, ""))
       /\ calls' = Append(calls0, Call("confirm", "", <<>>, ""))
       /\ pc' = "awaitConfirm"

\* upgrade.ts:379-451: from the selected names to the confirmation prompt
PlanAndConfirm(sel, out0, calls0) ==
    LET plan == buildPlanned(sel, infoByName, options)
        up == filterToUpgrade(plan)
        okl == filterAlreadyOk(plan)
        out1 == IF okl # <<>>
                THEN Append(out0, Out("SkippingAlreadyOk", planNames(okl), 0, 0, ""))
                ELSE out0
    IN /\ selectedNames' = sel
       /\ IF sel = <<>>
          THEN /\ out' = Append(out0, Out("NoneSelected", <<>>, 0, 0, ""))
               /\ pc' = "returned"
               /\ calls' = calls0
               /\ UNCHANGED <<planned, toUpgrade, alreadyOk>>
          ELSE /\ planned' = plan
               /\ toUpgrade' = up
               /\ alreadyOk' = okl
               /\ IF up = <<>>
                  THEN /\ out' = Append(out1, Out("NothingToChange", <<>>, 0, 0, ""))
                       /\ pc' = "returned"
                       /\ calls' = calls0
                  ELSE /\ out' = Append(out1, Out("PlannedUpdates", planNames(up), 0, 0, ""))
                       /\ calls' = Append(calls0, Call("confirm", "", <<>>, ""))
                       /\ pc' = "awaitConfirm"

\* The mutant of Select that lets the inclusion list win over --all.
Select_includeFirst(cands, out0, calls0) ==
    IF options.include # <<>>
    THEN LET sel == filter(NamesOf(cands), Range(options.include))
             missing == filter(options.include, Range(options.include) \ Range(sel))
         IN PlanAndConfirm(sel,
                IF missing # <<>>
                THEN Append(out0, Out("SkippingUnknown", missing, 0, 0, ""))
                ELSE out0,
                calls0)
    ELSE IF options.all
    THEN PlanAndConfirm(NamesOf(cands), out0, calls0)
    ELSE /\ calls' = Append(calls0, Call("select", "", <<>>, ""))
         /\ pc' = "awaitSelect"
         /\ out' = out0
         /\ UNCHANGED <<selectedNames, planned, toUpgrade, alreadyOk>>

\* The mutant of Select that does not report the requested names it drops.
Select_silentSkip(cands, out0, calls0) ==
    IF options.all
    THEN PlanAndConfirm(NamesOf(cands), out0, calls0)
    ELSE IF options.include # <<>>
    THEN PlanAndConfirm(filter(NamesOf(cands), Range(options.include)), out0, calls0)
    ELSE /\ calls' = Append(calls0, Call("select", "", <<>>, ""))
         /\ pc' = "awaitSelect"
         /\ out' = out0
         /\ UNCHANGED <<selectedNames, planned, toUpgrade, alreadyOk>>

\* upgrade.ts:337-377: the selection mode
Select(cands, out0, calls0) ==
    IF options.all
    THEN PlanAndConfirm(NamesOf(cands), out0, calls0)
    ELSE IF options.include # <<>>
    THEN LET sel == filter(NamesOf(cands), Range(options.include))
             missing == filter(options.include, Range(options.include) \ Range(sel))
         IN PlanAndConfirm(sel,
                IF missing # <<>>
                THEN Append(out0, Out("SkippingUnknown", missing, 0, 0, ""))
                ELSE out0,
                calls0)
    ELSE /\ calls' = Append(calls0, Call("select", "", <<>>, ""))
         /\ pc' = "awaitSelect"
         /\ out' = out0
         /\ UNCHANGED <<selectedNames, planned, toUpgrade, alreadyOk>>

\* upgrade.ts:317-332: every lookup has settled
JoinSortSelect(inv) ==
    LET sorted == sortCandidates(candidateFunctions, inv)
        out0 == Append(out, Out("Found", <<>>, Len(functions), Len(sorted), ""))
    IN /\ candidateFunctions' = sorted
       /\ Select(sorted, out0, calls)

\* The mutant of ListResponse that issues a failed list query a second time.
ListResponse_retryOnce ==
    /\ pc = "awaitList"
    /\ \E ok \in BOOLEAN :
          IF ~ok
          THEN IF Cardinality({c \in DOMAIN calls : calls[c].op = "list"}) < 2
               THEN /\ calls' = Append(calls, Call("list", "", <<>>, ""))
                    /\ UNCHANGED <<pc, threw, out, functions, candidateFunctions,
                                   infoByName, pendingLookups>>
               ELSE /\ Throw(Failure("ListFunctions"))
                    /\ UNCHANGED <<functions, candidateFunctions, infoByName,
                                   pendingLookups, calls>>
          ELSE LET cands == filterFamily(fleet, targetFamily)
               IN /\ functions' = fleet
                  /\ candidateFunctions' = cands
                  /\ infoByName' = buildInfoByName(cands)
                  /\ pendingLookups' = Range(NamesOf(cands))
                  /\ calls' = calls \o lookupCalls(NamesOf(cands))
                  /\ UNCHANGED threw
                  /\ IF cands = <<>>
                     THEN /\ out' = out \o
                                << Out("Found", <<>>, Len(fleet), 0, ""),
                                   Out("NoCandidates", <<>>, 0, 0, "") >>
                          /\ pc' = "returned"
                     ELSE /\ pc' = "awaitLookups"
                          /\ UNCHANGED out
    /\ UNCHANGED <<lastPoll, firstRun, deployVars, options, targetFamily, fleet, invocationByName, lookupAnswer,
                   selectedNames, planned, toUpgrade, alreadyOk, idx, results,
                   itemState, elapsed, intervalMs, polled>>

\* The answer of list-functions: upgrade.ts:296-315
ListResponse ==
    /\ pc = "awaitList"
    /\ \E ok \in BOOLEAN :
          IF ~ok
          THEN /\ Throw(Failure("ListFunctions"))
               /\ UNCHANGED <<functions, candidateFunctions, infoByName,
                              pendingLookups, calls>>
          ELSE LET cands == filterFamily(fleet, targetFamily)
               IN /\ functions' = fleet
                  /\ candidateFunctions' = cands
                  /\ infoByName' = buildInfoByName(cands)
                  /\ pendingLookups' = Range(NamesOf(cands))
                  /\ calls' = calls \o lookupCalls(NamesOf(cands))
                  /\ UNCHANGED threw
                  /\ IF cands = <<>>
                     THEN \* Promise.all of no promise, then upgrade.ts:327-331
                          /\ out' = out \o
                                << Out("Found", <<>>, Len(fleet), 0, ""),
                                   Out("NoCandidates", <<>>, 0, 0, "") >>
                          /\ pc' = "returned"
                     ELSE /\ pc' = "awaitLookups"
                          /\ UNCHANGED out
    /\ UNCHANGED <<lastPoll, firstRun, deployVars, options, targetFamily, fleet, invocationByName, lookupAnswer, selectedNames,
                   planned, toUpgrade, alreadyOk, idx, results, itemState,
                   elapsed, intervalMs, polled>>

\* The mutant of LookupResponse that attaches an answer to the first candidate
\* still without one, in the order of arrival, not to the function it is for.
LookupResponse_byArrival ==
    /\ pc = "awaitLookups"
    /\ \E n \in pendingLookups : \E answer \in lookupAnswersFor(n) :
          LET names == NamesOf(candidateFunctions)
              slot == names[CHOOSE k \in DOMAIN names :
                              /\ names[k] \notin DOMAIN invocationByName
                              /\ \A j \in 1..(k - 1) : names[j] \in DOMAIN invocationByName]
              inv == [m \in DOMAIN invocationByName \cup {slot} |->
                         IF m = slot THEN getLastInvocation(answer)
                         ELSE invocationByName[m]]
          IN /\ invocationByName' = inv
             /\ lookupAnswer' = [m \in DOMAIN lookupAnswer \cup {n} |->
                                    IF m = n THEN answer ELSE lookupAnswer[m]]
             /\ pendingLookups' = pendingLookups \ {n}
             /\ IF pendingLookups = {n}
                THEN JoinSortSelect(inv)
                ELSE UNCHANGED <<pc, candidateFunctions, selectedNames, planned,
                                 toUpgrade, alreadyOk, calls, out>>
    /\ UNCHANGED <<lastPoll, firstRun, deployVars, options, targetFamily, fleet, threw, functions,
                   infoByName, idx, results, itemState, elapsed, intervalMs,
                   polled>>

\* One describe-log-streams call answers; the last one lets Promise.all
\* resolve: upgrade.ts:312-318, then the sort, the selection and the plan.
LookupResponse ==
    /\ pc = "awaitLookups"
    /\ \E n \in pendingLookups : \E answer \in lookupAnswersFor(n) :
          LET inv == [m \in DOMAIN invocationByName \cup {n} |->
                         IF m = n THEN getLastInvocation(answer)
                         ELSE invocationByName[m]]
          IN /\ invocationByName' = inv
             /\ lookupAnswer' = [m \in DOMAIN lookupAnswer \cup {n} |->
                                    IF m = n THEN answer ELSE lookupAnswer[m]]
             /\ pendingLookups' = pendingLookups \ {n}
             /\ IF pendingLookups = {n}
                THEN JoinSortSelect(inv)
                ELSE UNCHANGED <<pc, candidateFunctions, selectedNames, planned,
                                 toUpgrade, alreadyOk, calls, out>>
    /\ UNCHANGED <<lastPoll, firstRun, deployVars, options, targetFamily, fleet, threw, functions, infoByName,
                   idx, results, itemState, elapsed, intervalMs, polled>>

\* The candidates the operator can tick, in the order of the choices
Picks(cands) == {filter(NamesOf(cands), S) : S \in SUBSET Range(NamesOf(cands))}

\* The selection prompt answers: upgrade.ts:359-377, then the plan
SelectAnswer ==
    /\ pc = "awaitSelect"
    /\ \/ \* onCancel: process.exit(0)
          /\ pc' = "exited"
          /\ out' = Append(out, Out("SelectionCancelled", <<>>, 0, 0, ""))
          /\ UNCHANGED <<selectedNames, planned, toUpgrade, alreadyOk, calls>>
       \/ \E picked \in Picks(candidateFunctions) :
             PlanAndConfirm(picked, out, calls)
    /\ UNCHANGED <<lastPoll, firstRun, deployVars, options, targetFamily, fleet, threw, functions,
                   candidateFunctions, infoByName, pendingLookups,
                   invocationByName, lookupAnswer, idx, results, itemState, elapsed,
                   intervalMs, polled>>

(***************************************************************************)
(* Apply: upgrade.ts:453-500 and waitForUpdate, awsUtils.ts:82-106.        *)
(***************************************************************************)
timeoutMs == 60000
initialIntervalMs == 1000
maxIntervalMs == 5000

\* How long a get-function-configuration call can take to answer
SlowCallMs == 30000
PollLatencies == {0, SlowCallMs}

\* LastUpdateStatus of the answer ("" when the field is missing), or the
\* call fails
PollAnswers == {"Successful", "Failed", "InProgress", "", "throws"}

Min(a, b) == IF a <= b THEN a ELSE b

\* The mutant of nextInterval without the cap.
nextInterval_uncapped(interval) == (interval * 3) \div 2

\* awsUtils.ts:103
nextInterval(interval) == Min((interval * 3) \div 2, maxIntervalMs)

\* The mutant of buildUpdateCall that sends --layers only for a flagged item.
buildUpdateCall_flaggedLayers(p, opts) ==
    Call("update", p.name,
         IF p.changeRuntime THEN opts.targetRuntime ELSE <<>>,
         IF p.changeLayers THEN opts.layerArn ELSE "")

\* upgrade.ts:457-460
buildUpdateCall(p, opts) ==
    Call("update", p.name,
         IF p.changeRuntime THEN opts.targetRuntime ELSE <<>>,
         IF opts.layerArn # "" THEN opts.layerArn ELSE "")

RECURSIVE countOk(_)
countOk(res) ==
    IF res = <<>> THEN 0
    ELSE (IF Head(res).ok THEN 1 ELSE 0) + countOk(Tail(res))

\* upgrade.ts:496-500; a missing message prints as "undefined"
RECURSIVE failedLines(_)
failedLines(res) ==
    IF res = <<>> THEN <<>>
    ELSE IF Head(res).ok THEN failedLines(Tail(res))
    ELSE <<Out("FailedItem", <<Head(res).name>>, 0, 0,
               IF Head(res).message = "" THEN "undefined" ELSE Head(res).message)>>
         \o failedLines(Tail(res))

\* The mutant of summaryLines that counts every attempt as a failure.
summaryLines_countsAttempts(res, okl) ==
    LET ok == countOk(res)
        fail == Len(res)
    IN <<Out("Summary", <<>>, ok, fail, "")>>
       \o (IF okl # <<>> THEN <<Out("Skipped", <<>>, Len(okl), 0, "")>> ELSE <<>>)
       \o (IF fail > 0 THEN failedLines(res) ELSE <<>>)

\* upgrade.ts:486-500
summaryLines(res, okl) ==
    LET ok == countOk(res)
        fail == Len(res) - ok
    IN <<Out("Summary", <<>>, ok, fail, "")>>
       \o (IF okl # <<>> THEN <<Out("Skipped", <<>>, Len(okl), 0, "")>> ELSE <<>>)
       \o (IF fail > 0 THEN failedLines(res) ELSE <<>>)

\* The mutant of StartItemOrSummary that walks the to-upgrade list backwards.
StartItemOrSummary_reversed(k, res, st, out0, calls0) ==
    /\ results' = res
    /\ idx' = k
    /\ elapsed' = 0
    /\ intervalMs' = 0
    /\ UNCHANGED polled
    /\ IF k <= Len(toUpgrade)
       THEN LET p == toUpgrade[Len(toUpgrade) + 1 - k]
            IN /\ calls' = Append(calls0, buildUpdateCall(p, options))
               /\ out' = Append(out0, Out("Updating", <<p.name>>, 0, 0, ""))
               /\ itemState' = [st EXCEPT ![p.name] = "Submitted"]
               /\ pc' = "awaitUpdate"
       ELSE /\ calls' = calls0
            /\ out' = out0 \o summaryLines(res, alreadyOk)
            /\ itemState' = st
            /\ pc' = "returned"

\* The for-loop of upgrade.ts:456 reaches item k: the update call is issued
\* (upgrade.ts:457-468), or the loop is over and the summary is printed.
StartItemOrSummary(k, res, st, out0, calls0) ==
    /\ results' = res
    /\ idx' = k
    /\ elapsed' = 0
    /\ intervalMs' = 0
    /\ UNCHANGED polled
    /\ IF k <= Len(toUpgrade)
       THEN /\ calls' = Append(calls0, buildUpdateCall(toUpgrade[k], options))
            /\ out' = Append(out0, Out("Updating", <<toUpgrade[k].name>>, 0, 0, ""))
            /\ itemState' = [st EXCEPT ![toUpgrade[k].name] = "Submitted"]
            /\ pc' = "awaitUpdate"
       ELSE /\ calls' = calls0
            /\ out' = out0 \o summaryLines(res, alreadyOk)
            /\ itemState' = st
            /\ pc' = "returned"

\* The mutant of pushResult that records successes only.
pushResult_onlySuccess(res, name, ok, message) ==
    IF ok THEN Append(res, [name |-> name, ok |-> ok, message |-> message]) ELSE res

\* upgrade.ts:479 and :482
pushResult(res, name, ok, message) ==
    Append(res, [name |-> name, ok |-> ok, message |-> message])

\* The mutant of ConfirmAnswer without the return of upgrade.ts:449.
ConfirmAnswer_ignoresDecline ==
    /\ pc = "awaitConfirm"
    /\ \E confirm \in BOOLEAN :
          /\ invocationByName' = EmptyMap
          /\ lookupAnswer' = EmptyMap
          /\ StartItemOrSummary(1, <<>>,
                 [n \in Range(planNames(toUpgrade)) |-> "Pending"],
                 IF confirm THEN out ELSE Append(out, Out("Aborted", <<>>, 0, 0, "")),
                 calls)
    /\ UNCHANGED <<lastPoll, firstRun, deployVars, options, targetFamily, fleet, threw, functions,
                   candidateFunctions, infoByName, pendingLookups,
                   selectedNames, planned, toUpgrade, alreadyOk>>

\* The confirmation prompt answers: upgrade.ts:441-454
ConfirmAnswer ==
    /\ pc = "awaitConfirm"
    /\ \E confirm \in BOOLEAN :
          IF ~confirm
          THEN /\ out' = Append(out, Out("Aborted", <<>>, 0, 0, ""))
               /\ pc' = "returned"
               /\ UNCHANGED <<idx, results, itemState, elapsed, intervalMs,
                              polled, calls, invocationByName,
                              lookupAnswer>>
          ELSE \* the last-invocation map is not read again: it is dropped
               /\ invocationByName' = EmptyMap
               /\ lookupAnswer' = EmptyMap
               /\ StartItemOrSummary(1, <<>>,
                      [n \in Range(planNames(toUpgrade)) |-> "Pending"], out, calls)
    /\ UNCHANGED <<lastPoll, firstRun, deployVars, options, targetFamily, fleet, threw, functions,
                   candidateFunctions, infoByName, pendingLookups,
                   selectedNames, planned, toUpgrade, alreadyOk>>

\* The mutant of FinishWait that submits an item again when its update
\* ended Failed.
FinishWait_resubmitsFailed(status, reason) ==
    LET name == toUpgrade[idx].name
        ok == status = "Successful"
        sent == Len(SelectSeq(calls, LAMBDA c : c.op = "update" /\ c.name = name))
        out1 == Append(out, Out("ItemLine", <<name>>, IF ok THEN 1 ELSE 0, 0, status))
    IN IF status = "Failed" /\ sent < 2
       THEN StartItemOrSummary(idx, results,
                               [itemState EXCEPT ![name] = status], out1, calls)
       ELSE StartItemOrSummary(idx + 1, pushResult(results, name, ok, ""),
                               [itemState EXCEPT ![name] = status], out1, calls)

\* waitForUpdate returned: upgrade.ts:470-479
FinishWait(status, reason) ==
    LET name == toUpgrade[idx].name
        ok == status = "Successful"
        out0 == IF reason # "" /\ status # "Successful"
                THEN Append(out, Out("Reason", <<name>>, 0, 0, reason))
                ELSE out
        out1 == Append(out0, Out("ItemLine", <<name>>, IF ok THEN 1 ELSE 0, 0, status))
    IN StartItemOrSummary(idx + 1, pushResult(results, name, ok, ""),
                          [itemState EXCEPT ![name] = status], out1, calls)

\* The mutant of WaitLoop that grants one more interval after the budget.
WaitLoop_graceInterval(now, interval) ==
    IF now < timeoutMs + maxIntervalMs
    THEN /\ polled' = polled \cup {toUpgrade[idx].name}
         /\ elapsed' = now
         /\ intervalMs' = interval
         /\ itemState' = [itemState EXCEPT ![toUpgrade[idx].name] = "Polling"]
         /\ pc' = "awaitPoll"
         /\ UNCHANGED <<idx, results, calls, out>>
    ELSE FinishWait("Timeout", "Waited 60s")

\* The loop test of awsUtils.ts:92 at elapsed time now: poll again, or time out
WaitLoop(now, interval) ==
    IF now < timeoutMs
    THEN /\ polled' = polled \cup {toUpgrade[idx].name}
         /\ elapsed' = now
         /\ intervalMs' = interval
         /\ itemState' = [itemState EXCEPT ![toUpgrade[idx].name] = "Polling"]
         /\ pc' = "awaitPoll"
         /\ UNCHANGED <<idx, results, calls, out>>
    ELSE FinishWait("Timeout", "Waited 60s")

\* The mutant of UpdateResponse without the try/catch of upgrade.ts:467-483.
UpdateResponse_noCatch ==
    /\ pc = "awaitUpdate"
    /\ \E ok \in BOOLEAN :
          IF ok
          THEN WaitLoop(0, initialIntervalMs) /\ UNCHANGED threw
          ELSE /\ Throw(Failure("UpdateRejected"))
               /\ UNCHANGED <<idx, results, itemState, elapsed, intervalMs,
                              polled, calls>>
    /\ lastPoll' = NoPoll
    /\ UNCHANGED <<firstRun, deployVars, options, targetFamily, fleet, functions,
                   candidateFunctions, infoByName, pendingLookups,
                   invocationByName, lookupAnswer, selectedNames, planned, toUpgrade, alreadyOk>>

\* The mutant of UpdateResponse that submits a rejected update a second time.
UpdateResponse_retryOnce ==
    /\ pc = "awaitUpdate"
    /\ \E ok \in BOOLEAN :
          IF ok
          THEN WaitLoop(0, initialIntervalMs)
          ELSE LET name == toUpgrade[idx].name
                   sent == {c \in DOMAIN calls :
                               calls[c].op = "update" /\ calls[c].name = name}
               IN IF Cardinality(sent) < 2
                  THEN /\ calls' = Append(calls, buildUpdateCall(toUpgrade[idx], options))
                       /\ UNCHANGED <<pc, idx, results, itemState, elapsed,
                                      intervalMs, polled, out>>
                  ELSE StartItemOrSummary(idx + 1,
                          pushResult(results, name, FALSE, "update rejected"),
                          [itemState EXCEPT ![name] = "Failed"],
                          Append(out, Out("FailedUpdating", <<name>>, 0, 0, "update rejected")),
                          calls)
    /\ lastPoll' = NoPoll
    /\ UNCHANGED <<firstRun, deployVars, options, targetFamily, fleet, threw, functions,
                   candidateFunctions, infoByName, pendingLookups,
                   invocationByName, lookupAnswer, selectedNames, planned,
                   toUpgrade, alreadyOk>>

\* update-function-configuration answers: upgrade.ts:468-469 and :480-483
UpdateResponse ==
    /\ pc = "awaitUpdate"
    /\ \E ok \in BOOLEAN :
          IF ok
          THEN WaitLoop(0, initialIntervalMs)
          ELSE LET name == toUpgrade[idx].name
               IN StartItemOrSummary(idx + 1,
                      pushResult(results, name, FALSE, "update rejected"),
                      [itemState EXCEPT ![name] = "Failed"],
                      Append(out, Out("FailedUpdating", <<name>>, 0, 0, "update rejected")),
                      calls)
    /\ lastPoll' = NoPoll
    /\ UNCHANGED <<firstRun, deployVars, options, targetFamily, fleet, threw, functions,
                   candidateFunctions, infoByName, pendingLookups,
                   invocationByName, lookupAnswer, selectedNames, planned, toUpgrade, alreadyOk>>

\* The mutant of PollResponse that polls again after a poll that failed.
PollResponse_retriesThrow ==
    /\ pc = "awaitPoll"
    /\ \E latency \in PollLatencies, answer \in PollAnswers :
          /\ lastPoll' = [status |-> answer, inBudget |-> elapsed < timeoutMs]
          /\ IF answer = "Successful" THEN FinishWait("Successful", "")
             ELSE IF answer = "Failed" THEN FinishWait("Failed", "status reason")
             ELSE /\ pc' = "sleeping"
                  /\ elapsed' = elapsed + latency
                  /\ UNCHANGED <<idx, results, itemState, intervalMs, polled,
                                 calls, out>>
    /\ UNCHANGED <<firstRun, deployVars, options, targetFamily, fleet, threw, functions,
                   candidateFunctions, infoByName, pendingLookups,
                   invocationByName, lookupAnswer, selectedNames, planned,
                   toUpgrade, alreadyOk>>

\* get-function-configuration answers: awsUtils.ts:95-102
PollResponse ==
    /\ pc = "awaitPoll"
    /\ \E latency \in PollLatencies, answer \in PollAnswers :
          /\ lastPoll' = [status |-> answer, inBudget |-> elapsed < timeoutMs]
          /\ IF answer = "Successful" THEN FinishWait("Successful", "")
             ELSE IF answer = "Failed" THEN FinishWait("Failed", "status reason")
             ELSE IF answer = "throws" THEN FinishWait("Failed", "poll rejected")
             ELSE /\ pc' = "sleeping"
                  /\ elapsed' = elapsed + latency
                  /\ UNCHANGED <<idx, results, itemState, intervalMs, polled,
                                 calls, out>>
    /\ UNCHANGED <<firstRun, deployVars, options, targetFamily, fleet, threw, functions,
                   candidateFunctions, infoByName, pendingLookups,
                   invocationByName, lookupAnswer, selectedNames, planned, toUpgrade, alreadyOk>>

\* The mutant of TimerFires whose clock does not advance while the timer
\* runs.
TimerFires_clockStuck ==
    /\ pc = "sleeping"
    /\ WaitLoop(elapsed, nextInterval(intervalMs))
    /\ UNCHANGED <<lastPoll, firstRun, deployVars, options, targetFamily, fleet, threw, functions,
                   candidateFunctions, infoByName, pendingLookups,
                   invocationByName, lookupAnswer, selectedNames, planned,
                   toUpgrade, alreadyOk>>

\* The timer of awsUtils.ts:102 fires: awsUtils.ts:103, then the loop test
TimerFires ==
    /\ pc = "sleeping"
    /\ WaitLoop(elapsed + intervalMs, nextInterval(intervalMs))
    /\ UNCHANGED <<lastPoll, firstRun, deployVars, options, targetFamily, fleet, threw, functions,
                   candidateFunctions, infoByName, pendingLookups,
                   invocationByName, lookupAnswer, selectedNames, planned, toUpgrade, alreadyOk>>

Next ==
    \/ Invoke
    \/ CredsResponse
    \/ ListResponse
    \/ LookupResponse
    \/ SelectAnswer
    \/ ConfirmAnswer
    \/ UpdateResponse
    \/ PollResponse
    \/ TimerFires

Spec == Init /\ [][Next]_vars

TypeOK ==
    /\ pc \in {"start", "awaitCreds", "awaitList", "awaitLookups", "awaitSelect",
               "awaitConfirm", "awaitUpdate", "awaitPoll", "sleeping",
               "returned", "threw", "exited"}
    /\ idx \in 0..(Len(toUpgrade) + 1)
    /\ elapsed \in Nat
    /\ intervalMs \in 0..maxIntervalMs

(***************************************************************************)
(* The runs whose fleet is listed in name order, under the fairness the    *)
(* event loop gives the apply loop: the answer of an issued update or      *)
(* get-function-configuration call eventually arrives and a timer that    *)
(* was set eventually fires.  Nothing makes the operator answer a prompt.  *)
(***************************************************************************)
FairFleets == {f \in Fleets : Len(f) = MaxFunctions /\ InPoolOrder(f)}

InitFair ==
    /\ options \in OptionSets
    /\ fleet \in FairFleets
    /\ firstRun = NoRun
    /\ DeployIdle
    /\ Idle

FairSpec ==
    /\ InitFair
    /\ [][Next]_vars
    /\ WF_vars(UpdateResponse)
    /\ WF_vars(PollResponse)
    /\ WF_vars(TimerFires)

(***************************************************************************)
(* The target validator on its own: upgradeRuntimes is called with every   *)
(* target runtime string made of at most MaxTokens of these pieces.        *)
(***************************************************************************)
Tokens == {Str_python, Str_nodejs, <<"P", "y", "t", "h", "o", "n">>,
           <<"j", "a", "v", "a">>, <<"3", ".">>, <<"3">>, <<".">>, <<"1">>,
           <<"x">>, <<"-">>}

RECURSIVE TokenStrings(_)
TokenStrings(n) ==
    IF n = 0 THEN {<<>>}
    ELSE LET shorter == TokenStrings(n - 1)
         IN shorter \cup {s \o t : s \in shorter, t \in Tokens}

InitV ==
    /\ options \in [targetRuntime : TokenStrings(MaxTokens), all : {TRUE},
                    include : {<<>>}, layerArn : {""}]
    /\ fleet = <<>>
    /\ firstRun = NoRun
    /\ DeployIdle
    /\ Idle

NextV == Invoke

SpecV == InitV /\ [][NextV]_vars

(***************************************************************************)
(* Vocabulary of the properties.                                           *)
(***************************************************************************)
\* The update-function-configuration calls issued so far, in order
RECURSIVE updateNames(_)
updateNames(cs) ==
    IF cs = <<>> THEN <<>>
    ELSE IF Head(cs).op = "update" THEN <<Head(cs).name>> \o updateNames(Tail(cs))
    ELSE updateNames(Tail(cs))

resultNames(res) == [k \in DOMAIN res |-> res[k].name]

OpsIssued == {calls[k].op : k \in DOMAIN calls}
TagsPrinted == {out[k].tag : k \in DOMAIN out}

Ended == pc \in {"returned", "threw", "exited"}

\* The apply loop of upgrade.ts:456 has been entered
ApplyStarted == idx >= 1
\* The apply loop is over and the summary printed
ApplyDone == ApplyStarted /\ pc = "returned"

\* The join of upgrade.ts:317 is behind and there is a candidate: the
\* selection mode of upgrade.ts:337-377 has been entered
SelectionEntered ==
    /\ candidateFunctions # <<>>
    /\ pc \in {"awaitSelect", "awaitConfirm", "awaitUpdate", "awaitPoll",
               "sleeping", "returned", "exited"}

CandidateNames == Range(NamesOf(candidateFunctions))

Terminal == {"Successful", "Failed", "Timeout"}

(***************************************************************************)
(* C1. After the apply loop the results hold exactly one entry for every   *)
(* to-upgrade item, in the order of the to-upgrade list, and during the    *)
(* loop one entry for every item already finished; no entry is for a       *)
(* function that is already satisfied, was not selected or is no candidate.*)
(***************************************************************************)
C1_OneResultPerItem ==
    /\ ~ApplyStarted => results = <<>>
    /\ ApplyStarted =>
          /\ resultNames(results) = SubSeq(planNames(toUpgrade), 1, idx - 1)
          /\ \A k \in DOMAIN results :
                /\ results[k].name \notin Range(planNames(alreadyOk))
                /\ results[k].name \in Range(selectedNames)
                /\ results[k].name \in CandidateNames
    /\ ApplyDone => resultNames(results) = planNames(toUpgrade)

\* A finished run of two items, one successful and one not, in an account
\* that also holds a function that is no candidate
C1_Witness ==
    /\ ApplyDone
    /\ Len(results) = 2
    /\ results[1].ok /\ ~results[2].ok
    /\ Len(functions) > Len(candidateFunctions)

(***************************************************************************)
(* C2. The apply engine is strictly sequential: the update calls are       *)
(* issued in the order of the to-upgrade list, which is the candidate      *)
(* order (last invocation descending) restricted to the selected names;    *)
(* every item before the current one has its terminal outcome, every item  *)
(* after it is still pending, and at most one item is submitted and not    *)
(* terminal.                                                               *)
(***************************************************************************)
C2_StrictlySequential ==
    /\ updateNames(calls) =
          SubSeq(planNames(toUpgrade), 1, Min(idx, Len(toUpgrade)))
    /\ planNames(toUpgrade) =
          filter(NamesOf(candidateFunctions), Range(planNames(toUpgrade)))
    /\ (pc \in {"awaitSelect", "awaitConfirm"}) =>
          \A i, j \in DOMAIN candidateFunctions :
             i < j => invocationByName[candidateFunctions[i].Name].ts
                         >= invocationByName[candidateFunctions[j].Name].ts
    /\ ApplyStarted =>
          /\ \A k \in DOMAIN toUpgrade :
                LET st == itemState[toUpgrade[k].name]
                IN /\ k < idx => st \in Terminal
                   /\ k = idx => st \in {"Submitted", "Polling"}
                   /\ k > idx => st = "Pending"
          /\ Cardinality({n \in DOMAIN itemState :
                             itemState[n] \in {"Submitted", "Polling"}}) <= 1
          /\ polled \subseteq {toUpgrade[k].name : k \in 1..Min(idx, Len(toUpgrade))}

\* The second item is being submitted after the first one timed out, in a
\* run where the sort changed the order of the candidates
C2_Witness ==
    /\ pc = "awaitUpdate"
    /\ idx = 2
    /\ itemState[toUpgrade[1].name] = "Timeout"
    /\ candidateFunctions # filterFamily(fleet, targetFamily)

(***************************************************************************)
(* C3. Once the apply loop has started, no failure of an item (the update  *)
(* rejected, the remote status Failed, the poll timing out) aborts the     *)
(* batch: upgradeRuntimes never throws, and it eventually returns with     *)
(* every to-upgrade item terminal and the summary printed.                 *)
(***************************************************************************)
C3_Completed ==
    /\ pc = "returned"
    /\ threw = NoError
    /\ Len(results) = Len(toUpgrade)
    /\ \A n \in DOMAIN itemState : itemState[n] \in Terminal
    /\ "Summary" \in TagsPrinted

C3_FailuresContained ==
    /\ [](ApplyStarted => pc # "threw" /\ threw = NoError)
    /\ ApplyStarted ~> C3_Completed

\* A finished run whose first item's update was rejected and whose second
\* item timed out
C3_Witness ==
    /\ C3_Completed
    /\ Len(results) = 2
    /\ ~results[1].ok /\ results[1].message # ""
    /\ itemState[toUpgrade[2].name] = "Timeout"

(***************************************************************************)
(* C4. The plan partitions the selected names: every to-upgrade item has a *)
(* change flag set, every already-satisfied item has none, the two lists   *)
(* are disjoint and together are the selected names; no update call is     *)
(* ever issued for an item with both flags false.                          *)
(***************************************************************************)
C4_PlanPartition ==
    /\ \A k \in DOMAIN toUpgrade :
          toUpgrade[k].changeRuntime \/ toUpgrade[k].changeLayers
    /\ \A k \in DOMAIN alreadyOk :
          ~alreadyOk[k].changeRuntime /\ ~alreadyOk[k].changeLayers
    /\ Range(planNames(toUpgrade)) \cap Range(planNames(alreadyOk)) = {}
    /\ planned # <<>> =>
          /\ Range(planNames(toUpgrade)) \cup Range(planNames(alreadyOk))
                = Range(selectedNames)
          /\ Len(toUpgrade) + Len(alreadyOk) = Len(selectedNames)
    /\ \A c \in DOMAIN calls :
          calls[c].op = "update" =>
             \E k \in DOMAIN planned :
                /\ planned[k].name = calls[c].name
                /\ planned[k].changeRuntime \/ planned[k].changeLayers

\* A finished run with a function to upgrade and one already satisfied
C4_Witness ==
    /\ ApplyDone
    /\ toUpgrade # <<>>
    /\ alreadyOk # <<>>

(***************************************************************************)
(* C5. The target runtime is validated first: when it is rejected the      *)
(* command has failed with that error and no external call (credentials,   *)
(* list-functions, log lookup, update, poll) or prompt was ever issued.    *)
(***************************************************************************)
C5_ValidationFirst ==
    LET v == validateAndGetRuntimeFamily(options.targetRuntime)
    IN v.error.kind # "none" =>
          /\ calls = <<>>
          /\ polled = {}
          /\ pc \in {"start", "threw"}
          /\ pc = "threw" => threw = v.error

\* The command has failed on python3.x
C5_Witness ==
    /\ pc = "threw"
    /\ threw.kind = "InvalidFormat"
    /\ options.targetRuntime = Str_python3_x
    /\ calls = <<>>

(***************************************************************************)
(* C6. validateAndGetRuntimeFamily has exactly three outcomes over all     *)
(* strings: it returns the family iff the lower-cased string starts with   *)
(* python or nodejs and the string is python3.<digits> or nodejs<digits>.x;*)
(* it fails as unsupported iff the string starts with neither; it fails as *)
(* badly formatted, naming the string and the family's example, iff it     *)
(* starts with one of them and has not that form.                          *)
(***************************************************************************)
RefCoarse(s, family) ==
    /\ Len(s) >= Len(family)
    /\ \A i \in DOMAIN family : toLowerCaseChar(s[i]) = family[i]

RefPythonForm(s) ==
    /\ Len(s) >= 9
    /\ \A i \in 1..8 : s[i] = Python3Prefix[i]
    /\ \A i \in 9..Len(s) : s[i] \in Digits

RefNodejsForm(s) ==
    /\ Len(s) >= 9
    /\ \A i \in 1..6 : s[i] = Str_nodejs[i]
    /\ \A i \in 7..(Len(s) - 2) : s[i] \in Digits
    /\ s[Len(s) - 1] = "." /\ s[Len(s)] = "x"

C6_ThreeOutcomes ==
    pc # "start" =>
       LET s == options.targetRuntime
           isPython == RefCoarse(s, Str_python)
           isNodejs == RefCoarse(s, Str_nodejs)
           wellFormed == (isPython /\ RefPythonForm(s)) \/ (isNodejs /\ RefNodejsForm(s))
           accepted == threw.kind \notin {"Unsupported", "InvalidFormat"}
       IN /\ accepted <=> wellFormed
          /\ accepted => targetFamily = (IF isPython THEN Str_python ELSE Str_nodejs)
          /\ threw.kind = "Unsupported" <=> (~isPython /\ ~isNodejs)
          /\ threw.kind = "InvalidFormat" <=> ((isPython \/ isNodejs) /\ ~wellFormed)
          /\ threw.kind = "InvalidFormat" =>
                /\ threw.runtime = s
                /\ threw.example = (IF isPython THEN Str_python3_12 ELSE Str_nodejs20_x)
          /\ threw.kind = "Unsupported" => threw.runtime = s

\* python3.x is rejected as badly formatted
C6_Witness ==
    /\ pc = "threw"
    /\ threw.kind = "InvalidFormat"
    /\ options.targetRuntime = Str_python3_x

(***************************************************************************)
(* C7 as stated: a non-empty inclusion list decides the selection, even    *)
(* when --all is given.                                                    *)
(***************************************************************************)
C7_IncludeWins ==
    (SelectionEntered /\ options.include # <<>>) =>
        selectedNames = filter(NamesOf(candidateFunctions), Range(options.include))

(***************************************************************************)
(* C7 amended. The selection modes are resolved in the precedence          *)
(* all > include > interactive: with --all every candidate is selected,    *)
(* even if an inclusion list is given; a non-empty inclusion list selects  *)
(* exactly the candidates it names only without --all; the selection       *)
(* prompt is issued exactly when neither is given.                         *)
(***************************************************************************)
C7_AllWins ==
    SelectionEntered =>
       /\ options.all => selectedNames = NamesOf(candidateFunctions)
       /\ (~options.all /\ options.include # <<>>) =>
             selectedNames =
                filter(NamesOf(candidateFunctions), Range(options.include))
       /\ "select" \in OpsIssued <=> (~options.all /\ options.include = <<>>)
       /\ "select" \in OpsIssued =>
             Range(selectedNames) \subseteq CandidateNames

\* --all and --include A Z together: a candidate outside the list is selected
C7_Witness ==
    /\ SelectionEntered
    /\ options.all
    /\ options.include # <<>>
    /\ \E n \in Range(selectedNames) : n \notin Range(options.include)

(***************************************************************************)
(* C8 as stated: in every run with an inclusion list that ends normally,   *)
(* every requested name that is no candidate has been reported as skipped. *)
(***************************************************************************)
ReportedSkipped ==
    UNION {Range(out[k].names) : k \in {j \in DOMAIN out : out[j].tag = "SkippingUnknown"}}

C8_EveryMissingReported ==
    (pc = "returned" /\ options.include # <<>>) =>
        \A n \in Range(options.include) :
            n \notin CandidateNames => n \in ReportedSkipped

(***************************************************************************)
(* C8 amended. In every run with a non-empty inclusion list and without    *)
(* --all that finds at least one candidate, the requested names that are   *)
(* no candidates are reported as skipped, in the order requested, as soon  *)
(* as the selection is made; and in every run a requested name that is no  *)
(* candidate is never selected, planned, updated or given a result.        *)
(***************************************************************************)
C8_MissingReported ==
    /\ (SelectionEntered /\ ~options.all /\ options.include # <<>>) =>
          LET missing == filter(options.include,
                                Range(options.include) \ CandidateNames)
          IN missing # <<>> =>
                \E k \in DOMAIN out : out[k] = Out("SkippingUnknown", missing, 0, 0, "")
    /\ \A n \in Range(options.include) :
          n \notin CandidateNames =>
             /\ n \notin Range(selectedNames)
             /\ n \notin Range(planNames(planned))
             /\ n \notin Range(resultNames(results))
             /\ n \notin Range(updateNames(calls))

\* --include A Z on an account where A is a candidate: Z is reported
C8_Witness ==
    /\ Ended
    /\ ~options.all
    /\ options.include = <<"A", "Z">>
    /\ selectedNames = <<"A">>
    /\ ReportedSkipped = {"Z"}

(***************************************************************************)
(* C9. The flags of every plan item are those of the reference             *)
(* computation on the function as listed: changeRuntime iff its runtime    *)
(* differs from the target ignoring case; changeLayers iff a layer was     *)
(* requested and its layer list is not the one-element list of that layer; *)
(* without a requested layer changeLayers is false and toLayers absent.    *)
(* With layer L1 requested and a matching runtime, a function on <<L1>> is *)
(* already satisfied and a function on <<L2>> is to upgrade with           *)
(* changeLayers only.                                                      *)
(***************************************************************************)
equalIgnoringCase(a, b) ==
    /\ Len(a) = Len(b)
    /\ \A i \in DOMAIN a : toLowerCaseChar(a[i]) = toLowerCaseChar(b[i])

listed(n) == CHOOSE f \in Range(fleet) : f.Name = n

C9_PlanFlags ==
    \A k \in DOMAIN planned :
        LET p == planned[k]
            f == listed(p.name)
            sameRuntime == equalIgnoringCase(f.Runtime, options.targetRuntime)
        IN /\ p.changeRuntime <=> ~sameRuntime
           /\ p.changeLayers <=>
                 (options.layerArn # "" /\ f.Layers # <<options.layerArn>>)
           /\ options.layerArn = "" => (~p.changeLayers /\ p.toLayers = <<>>)
           /\ options.layerArn # "" => p.toLayers = << <<options.layerArn>> >>
           /\ (options.layerArn = "L1" /\ sameRuntime /\ f.Layers = <<"L1">>) =>
                 (p \in Range(alreadyOk) /\ p \notin Range(toUpgrade))
           /\ (options.layerArn = "L1" /\ sameRuntime /\ f.Layers = <<"L2">>) =>
                 /\ p \in Range(toUpgrade) /\ p \notin Range(alreadyOk)
                 /\ p.changeLayers /\ ~p.changeRuntime

\* Target nodejs18.x with layer L1: the function on NodeJS18.x and
\* <<L1, L2>> and the function on nodejs18.x and <<L2>> both change their
\* layers only
C9_Witness ==
    /\ Len(toUpgrade) = 2
    /\ \A k \in DOMAIN toUpgrade :
          toUpgrade[k].changeLayers /\ ~toUpgrade[k].changeRuntime
    /\ \E k \in DOMAIN toUpgrade : toUpgrade[k].fromRuntime = Str_NodeJS18_x
    /\ \E k \in DOMAIN toUpgrade : toUpgrade[k].fromLayers = <<"L2">>

(***************************************************************************)
(* C10. When the plan leaves nothing to upgrade, upgradeRuntimes has       *)
(* reported that there is nothing to change and returned without throwing, *)
(* and no confirmation prompt and no update call was issued.               *)
(***************************************************************************)
C10_NothingToDo ==
    (planned # <<>> /\ toUpgrade = <<>>) =>
        /\ pc = "returned"
        /\ threw = NoError
        /\ out[Len(out)].tag = "NothingToChange"
        /\ "update" \notin OpsIssued
        /\ "confirm" \notin OpsIssued
        /\ polled = {} /\ results = <<>>

\* Every selected function is already on the target
C10_Witness ==
    /\ planned # <<>>
    /\ toUpgrade = <<>>
    /\ alreadyOk = planned
    /\ pc = "returned"

(***************************************************************************)
(* C11. A rejected update call moves its item directly to a failed result  *)
(* that carries the error message: no get-function-configuration call is   *)
(* issued for the item, and no item has more than one update call.         *)
(***************************************************************************)
updateCallsFor(n) == {c \in DOMAIN calls : calls[c].op = "update" /\ calls[c].name = n}

\* The catch block of upgrade.ts:480-483 has run for the item
rejectedItem(n) ==
    \E j \in DOMAIN out : out[j].tag = "FailedUpdating" /\ out[j].names = <<n>>

C11_RejectedGoesToFailed ==
    /\ \A n \in Range(planNames(toUpgrade)) : Cardinality(updateCallsFor(n)) <= 1
    /\ \A n \in Range(planNames(toUpgrade)) :
          rejectedItem(n) =>
             /\ n \notin polled
             /\ itemState[n] = "Failed"
             /\ \E k \in DOMAIN results :
                   /\ results[k].name = n
                   /\ ~results[k].ok
                   /\ results[k].message = "update rejected"
    /\ \A k \in DOMAIN results :
          results[k].message # "" => rejectedItem(results[k].name)

\* The first item's update was rejected and the second item is being polled
C11_Witness ==
    /\ pc = "awaitPoll"
    /\ idx = 2
    /\ rejectedItem(toUpgrade[1].name)
    /\ toUpgrade[1].name \notin polled
    /\ toUpgrade[2].name \in polled

(***************************************************************************)
(* C12 as stated: every update call carries the runtime parameter iff      *)
(* changeRuntime is set on its item and the layers parameter iff           *)
(* changeLayers is set on its item.                                        *)
(***************************************************************************)
planOf(n) == CHOOSE p \in Range(toUpgrade) : p.name = n

C12_CallCarriesFlags ==
    \A c \in DOMAIN calls :
        calls[c].op = "update" =>
           LET p == planOf(calls[c].name)
           IN /\ calls[c].runtime # <<>> <=> p.changeRuntime
              /\ calls[c].layers # "" <=> p.changeLayers
              /\ calls[c].layers # "" => calls[c].layers = options.layerArn

(***************************************************************************)
(* C12 amended. For each to-upgrade item reached by the loop exactly one   *)
(* update call is built; it carries the runtime parameter, with the target *)
(* runtime, iff changeRuntime is set, and the layers parameter, with the   *)
(* requested layer ARN, iff a replacement layer was requested -- also for  *)
(* an item whose changeLayers is not set, whose layer list then already is *)
(* that one layer.                                                         *)
(***************************************************************************)
C12_CallCarriesRequest ==
    /\ Len(updateNames(calls)) = Min(idx, Len(toUpgrade))
    /\ \A n \in Range(planNames(toUpgrade)) : Cardinality(updateCallsFor(n)) <= 1
    /\ \A c \in DOMAIN calls :
          calls[c].op = "update" =>
             LET p == planOf(calls[c].name)
             IN /\ calls[c].runtime # <<>> <=> p.changeRuntime
                /\ calls[c].runtime # <<>> => calls[c].runtime = options.targetRuntime
                /\ calls[c].layers # "" <=> options.layerArn # ""
                /\ calls[c].layers # "" => calls[c].layers = options.layerArn
                /\ p.changeLayers => calls[c].layers # ""
                /\ (calls[c].layers # "" /\ ~p.changeLayers) =>
                      p.fromLayers = <<calls[c].layers>>

\* An update call that carries --runtime and --layers L1 for an item whose
\* layers are not flagged, and one that carries --layers only
C12_Witness ==
    /\ \E c \in DOMAIN calls :
          /\ calls[c].op = "update"
          /\ calls[c].runtime # <<>>
          /\ calls[c].layers = "L1"
          /\ ~planOf(calls[c].name).changeLayers
    /\ \E c \in DOMAIN calls :
          /\ calls[c].op = "update"
          /\ calls[c].runtime = <<>>
          /\ calls[c].layers = "L1"

C14_NonInteractive ==
    (options.all \/ options.include # <<>>) =>
        OpsIssued \cap {"select", "confirm"} = {}

(***************************************************************************)
(* C15. A failure of the target validation, of the option and credential   *)
(* validation or of the list-functions query is the error upgradeRuntimes  *)
(* rejects with; nothing is issued after the failing step, the list query  *)
(* is issued at most once and the run has no update call.                  *)
(***************************************************************************)
opsOf(cs) == [c \in DOMAIN cs |-> cs[c].op]

countOp(op) == Cardinality({c \in DOMAIN calls : calls[c].op = op})

C15_FatalErrorsPropagate ==
    /\ countOp("list") <= 1
    /\ countOp("sts") <= 1
    /\ pc = "threw" <=> threw # NoError
    /\ pc = "threw" =>
          /\ threw.kind \in {"Unsupported", "InvalidFormat", "DeployOptions",
                              "Credentials", "ListFunctions"}
          /\ threw.kind \in {"Unsupported", "InvalidFormat", "DeployOptions"} =>
                calls = <<>>
          /\ threw.kind = "Credentials" => opsOf(calls) = <<"sts">>
          /\ threw.kind = "ListFunctions" => opsOf(calls) = <<"sts", "list">>
          /\ out[Len(out)] = Out("UpgradeFailed", <<>>, 0, 0, threw.kind)
          /\ "update" \notin OpsIssued
          /\ polled = {} /\ results = <<>>

\* The list-functions query failed
C15_Witness ==
    /\ pc = "threw"
    /\ threw.kind = "ListFunctions"
    /\ countOp("list") = 1

(***************************************************************************)
(* C16. A failed last-invocation lookup never fails the command: its       *)
(* function gets the display value unknown and no timestamp, a lookup that *)
(* finds no event gets the display value never and no timestamp, every     *)
(* other function keeps the result of its own lookup, and after the join   *)
(* every family-matching function is still a candidate, those without a    *)
(* timestamp after those with one.                                         *)
(***************************************************************************)
Joined == pendingLookups = {} /\ DOMAIN invocationByName # {}

C16_LookupFailuresContained ==
    /\ pc = "threw" => "logs" \notin OpsIssued
    /\ DOMAIN lookupAnswer = DOMAIN invocationByName
    /\ \A n \in DOMAIN lookupAnswer :
          LET a == lookupAnswer[n]
              r == invocationByName[n]
          IN /\ a.kind = "throws" => r = [display |-> "unknown", ts |-> 0]
             /\ a.kind = "none" => r = [display |-> "never", ts |-> 0]
             /\ a.kind = "event" =>
                   r.ts = a.ts /\ r.display \notin {"unknown", "never"}
    /\ pc = "awaitLookups" =>
          DOMAIN invocationByName \cup pendingLookups = CandidateNames
    /\ Joined =>
          /\ DOMAIN invocationByName = CandidateNames
          /\ \A f \in Range(fleet) :
                RefCoarse(f.Runtime, targetFamily) => f \in Range(candidateFunctions)
          /\ \A i, j \in DOMAIN candidateFunctions :
                (i < j /\ lookupAnswer[candidateFunctions[i].Name].kind = "throws")
                   => invocationByName[candidateFunctions[j].Name].ts = 0

\* Of two candidates the lookup of the one listed first failed and the other
\* has a timestamp: both are candidates and the failed one is last
C16_Witness ==
    /\ Joined
    /\ Len(candidateFunctions) = 2
    /\ lookupAnswer[candidateFunctions[2].Name].kind = "throws"
    /\ lookupAnswer[candidateFunctions[1].Name].kind = "event"
    /\ candidateFunctions # filterFamily(fleet, targetFamily)

(***************************************************************************)
(* C17. In the final summary every item that did not end Successful is     *)
(* listed by name with its reason.                                         *)
(***************************************************************************)
C17_FailuresListedWithReason ==
    ApplyDone =>
        \A k \in DOMAIN results :
            ~results[k].ok =>
                \E j \in DOMAIN out :
                    /\ out[j].tag = "FailedItem"
                    /\ out[j].names = <<results[k].name>>
                    /\ out[j].text \notin {"", "undefined"}

(***************************************************************************)
(* C18. The counts of the final summary agree with the plan: successes     *)
(* plus failures are the to-upgrade items, the failures are the items that *)
(* ended Failed or Timeout, the skipped count is the number of already     *)
(* satisfied items, and the three counts add up to the selected functions. *)
(***************************************************************************)
summaryLine == out[CHOOSE j \in DOMAIN out : out[j].tag = "Summary"]

skippedCount ==
    IF "Skipped" \in TagsPrinted
    THEN out[CHOOSE j \in DOMAIN out : out[j].tag = "Skipped"].a
    ELSE 0

itemsIn(states) == {n \in DOMAIN itemState : itemState[n] \in states}

C18_SummaryCounts ==
    /\ "Summary" \in TagsPrinted <=> ApplyDone
    /\ ApplyDone =>
          /\ Cardinality({j \in DOMAIN out : out[j].tag = "Summary"}) = 1
          /\ summaryLine.a + summaryLine.b = Len(toUpgrade)
          /\ summaryLine.a = Cardinality(itemsIn({"Successful"}))
          /\ summaryLine.b = Cardinality(itemsIn({"Failed", "Timeout"}))
          /\ skippedCount = Len(alreadyOk)
          /\ summaryLine.a + summaryLine.b + skippedCount = Len(selectedNames)

\* A summary with one success and one failure, the failure a timeout
C18_Witness ==
    /\ ApplyDone
    /\ summaryLine.a = 1
    /\ summaryLine.b = 1
    /\ itemsIn({"Timeout"}) # {}

(***************************************************************************)
(* C19. After the join the candidate list is a permutation of the          *)
(* family-matching functions in descending order of last-invocation        *)
(* timestamp, the candidates without a timestamp last, and candidates with *)
(* equal timestamps (those without one included) in the order of the       *)
(* list-functions answer.                                                  *)
(***************************************************************************)
positionIn(fs, n) == CHOOSE i \in DOMAIN fs : fs[i].Name = n

C19_SortedCandidates ==
    Joined =>
       /\ Len(candidateFunctions) = Len(filterFamily(functions, targetFamily))
       /\ Range(candidateFunctions) = Range(filterFamily(functions, targetFamily))
       /\ \A i, j \in DOMAIN candidateFunctions :
             i < j =>
                LET a == candidateFunctions[i].Name
                    b == candidateFunctions[j].Name
                    ta == invocationByName[a].ts
                    tb == invocationByName[b].ts
                IN /\ ta >= tb
                   /\ ta = 0 => tb = 0
                   /\ ta = tb => positionIn(functions, a) < positionIn(functions, b)

\* The newer of two timestamped candidates was listed second and is first
C19_Witness ==
    /\ Joined
    /\ Len(candidateFunctions) = 2
    /\ invocationByName[candidateFunctions[1].Name].ts = 2
    /\ invocationByName[candidateFunctions[2].Name].ts = 1
    /\ positionIn(functions, candidateFunctions[1].Name)
          > positionIn(functions, candidateFunctions[2].Name)

(***************************************************************************)
(* C20. Once the functions are listed, a listed function is a candidate    *)
(* iff its runtime, lower-cased, starts with the target family; a function *)
(* without a runtime is no candidate; and only candidates are looked up,   *)
(* selected, planned or targeted by an update call.                        *)
(***************************************************************************)
Listed == "list" \in OpsIssued /\ pc \notin {"awaitList", "threw"}

namesOfOp(op) == {calls[c].name : c \in {d \in DOMAIN calls : calls[d].op = op}}

C20_CandidatesByFamily ==
    /\ Listed =>
          \A f \in Range(fleet) :
             /\ f \in Range(candidateFunctions) <=> RefCoarse(f.Runtime, targetFamily)
             /\ f.Runtime = <<>> => f \notin Range(candidateFunctions)
    /\ ~Listed => candidateFunctions = <<>>
    /\ Range(candidateFunctions) \subseteq Range(fleet)
    /\ namesOfOp("logs") \subseteq CandidateNames
    /\ Listed => namesOfOp("logs") = CandidateNames
    /\ Range(selectedNames) \subseteq CandidateNames
    /\ Range(planNames(planned)) \subseteq CandidateNames
    /\ namesOfOp("update") \subseteq CandidateNames
    /\ polled \subseteq CandidateNames

\* The function on NodeJS18.x is updated for target nodejs18.x in an
\* account that also lists a function without a runtime and a python one
C20_Witness ==
    /\ "D" \in namesOfOp("update")
    /\ FnE \in Range(fleet)
    /\ \E f \in Range(fleet) : RefCoarse(f.Runtime, Str_python)

(***************************************************************************)
(* C21. End to end: in the account that lists A on python3.9, B on         *)
(* python3.12 and C on nodejs18.x, with target python3.12, --all and no    *)
(* layer, the candidates are exactly A and B, the plan changes the runtime *)
(* of A and finds B already satisfied, the only update call is for A, and  *)
(* when the update of A succeeds the summary reports 1 success, 0 failed   *)
(* and 1 skipped.                                                          *)
(***************************************************************************)
C21_Scenario ==
    /\ fleet = <<FnA, FnB, FnC>>
    /\ options.targetRuntime = Str_python3_12
    /\ options.all
    /\ options.layerArn = ""

C21_EndToEnd ==
    C21_Scenario =>
       /\ Listed => CandidateNames = {"A", "B"}
       /\ SelectionEntered =>
             /\ Range(planNames(planned)) = {"A", "B"}
             /\ \A k \in DOMAIN planned :
                   /\ planned[k].name = "A" =>
                         planned[k].changeRuntime /\ ~planned[k].changeLayers
                   /\ planned[k].name = "B" => isSatisfied(planned[k])
             /\ planNames(toUpgrade) = <<"A">>
             /\ planNames(alreadyOk) = <<"B">>
       /\ updateNames(calls) \in {<<>>, <<"A">>}
       /\ ApplyStarted => updateNames(calls) = <<"A">>
       /\ (ApplyDone /\ itemState["A"] = "Successful") =>
             /\ summaryLine.a = 1
             /\ summaryLine.b = 0
             /\ skippedCount = 1

\* The scenario has run to its summary and the update of A succeeded
C21_Witness ==
    /\ C21_Scenario
    /\ ApplyDone
    /\ itemState["A"] = "Successful"
    /\ "Summary" \in TagsPrinted

(***************************************************************************)
(* C22. Each plan item moves only Pending -> Submitted -> Polling ->       *)
(* Successful, Failed or Timeout, or Submitted -> Failed when the update   *)
(* call is rejected: an update call is issued only for a Pending item, a   *)
(* first poll only while the answer of the item's update call is handled,  *)
(* and an item with a terminal outcome is not submitted or polled again    *)
(* and keeps its outcome and its result.                                   *)
(***************************************************************************)
ItemTransitions ==
    {<<"Pending", "Submitted">>, <<"Submitted", "Polling">>,
     <<"Submitted", "Failed">>, <<"Polling", "Successful">>,
     <<"Polling", "Failed">>, <<"Polling", "Timeout">>}

\* A get-function-configuration call is issued in this step
PollIssued == pc' = "awaitPoll" /\ pc # "awaitPoll"

C22_Step ==
    /\ \A n \in DOMAIN itemState :
          /\ n \in DOMAIN itemState'
          /\ \/ itemState'[n] = itemState[n]
             \/ <<itemState[n], itemState'[n]>> \in ItemTransitions
          /\ itemState[n] \in Terminal =>
                /\ itemState'[n] = itemState[n]
                /\ Len(SelectSeq(calls', LAMBDA c : c.op = "update" /\ c.name = n))
                      = Len(SelectSeq(calls, LAMBDA c : c.op = "update" /\ c.name = n))
                /\ ~(PollIssued /\ toUpgrade'[idx'].name = n)
    /\ Len(results') >= Len(results)
    /\ SubSeq(results', 1, Len(results)) = results
    /\ updateNames(calls') # updateNames(calls) =>
          \E n \in DOMAIN itemState' :
             /\ updateNames(calls') = Append(updateNames(calls), n)
             /\ n \in DOMAIN itemState => itemState[n] = "Pending"
             /\ itemState'[n] = "Submitted"
    /\ PollIssued =>
          LET n == toUpgrade[idx].name
          IN /\ idx' = idx
             /\ itemState'[n] = "Polling"
             /\ \/ itemState[n] = "Submitted" /\ pc = "awaitUpdate"
                \/ itemState[n] = "Polling" /\ pc = "sleeping"
    /\ \A n \in DOMAIN itemState' :
          itemState'[n] \in {"Polling"} \cup Terminal => n \in Range(updateNames(calls'))

C22_ItemTransitions == [][C22_Step]_vars

\* Of two items the first was polled until the timeout and the submission of
\* the second was rejected
C22_Witness ==
    /\ ApplyDone
    /\ \E a, b \in DOMAIN itemState :
          /\ itemState[a] = "Timeout"
          /\ itemState[b] = "Failed"
          /\ b \notin polled
          /\ resultNames(results) = <<a, b>>

(***************************************************************************)
(* C23. Once its update call is acknowledged an item is polled again and   *)
(* again while the observed status is neither Successful nor Failed (an    *)
(* InProgress or missing status included) and the budget has not elapsed   *)
(* at the loop test; it is counted successful iff a poll issued within the *)
(* budget observed Successful; and it ends Timeout only when the budget    *)
(* has elapsed and no poll observed a terminal status.                     *)
(***************************************************************************)
NonTerminalStatus == {"InProgress", ""}

\* A result is recorded in this step
ResultPushed == Len(results') = Len(results) + 1

C23_Step ==
    /\ (pc = "awaitUpdate" /\ ~ResultPushed) => pc' = "awaitPoll"
    /\ pc = "awaitPoll" =>
          /\ elapsed < timeoutMs
          /\ lastPoll'.status \in NonTerminalStatus =>
                /\ pc' = "sleeping"
                /\ ~ResultPushed
                /\ itemState' = itemState
          /\ lastPoll'.status \notin NonTerminalStatus => ResultPushed
    /\ pc = "sleeping" =>
          /\ lastPoll.status \in NonTerminalStatus
          /\ IF elapsed + intervalMs < timeoutMs
             THEN PollIssued /\ ~ResultPushed
             ELSE /\ ResultPushed
                  /\ itemState'[toUpgrade[idx].name] = "Timeout"
    /\ ResultPushed =>
          LET r == results'[Len(results')]
          IN /\ r.ok <=> /\ pc = "awaitPoll"
                         /\ lastPoll'.status = "Successful"
                         /\ lastPoll'.inBudget
             /\ r.ok <=> itemState'[r.name] = "Successful"
             /\ itemState'[r.name] = "Timeout" =>
                   /\ pc = "sleeping"
                   /\ elapsed + intervalMs >= timeoutMs
                   /\ lastPoll.status \in NonTerminalStatus
                   /\ r.name \in polled

C23_PollUntilTerminal == [][C23_Step]_vars

\* The last item was counted successful by the answer of a poll, after an
\* earlier item had timed out
C23_Witness ==
    /\ ApplyDone
    /\ lastPoll.status = "Successful"
    /\ \E k \in DOMAIN out :
          out[k].tag = "ItemLine" /\ out[k].text = "Timeout"
    /\ results[Len(results)].ok

(***************************************************************************)
(* C24. The wait between two consecutive polls of waitForUpdate starts at  *)
(* 1000 ms and each next wait is the next element of 1000, 1500, 2250,     *)
(* 3375, 5000, 5000, ...: the waits never decrease, never exceed the cap   *)
(* of 5000 ms and stay at the cap once it is reached.                      *)
(***************************************************************************)
ExpectedWaits == <<1000, 1500, 2250, 3375, 5000>>

C24_Step ==
    /\ (PollIssued /\ pc = "awaitUpdate") => intervalMs' = ExpectedWaits[1]
    /\ (PollIssued /\ pc = "sleeping") =>
          /\ elapsed' - elapsed = intervalMs
          /\ \E k \in DOMAIN ExpectedWaits :
                /\ intervalMs = ExpectedWaits[k]
                /\ intervalMs' = ExpectedWaits[Min(k + 1, Len(ExpectedWaits))]
          /\ intervalMs' >= intervalMs
          /\ intervalMs' <= maxIntervalMs
          /\ intervalMs = maxIntervalMs => intervalMs' = maxIntervalMs
    /\ pc' = "sleeping" => intervalMs' = intervalMs

C24_WaitSequence == [][C24_Step]_vars

\* The sixth wait of one loop is over: 1000, 1500, 2250, 3375, 5000 and 5000
\* ms have passed between polls that answered at once
C24_Witness ==
    /\ pc = "awaitPoll"
    /\ elapsed = 18125
    /\ intervalMs = maxIntervalMs

(***************************************************************************)
(* C25. When every issued call is answered and every timer fires, each     *)
(* poll loop ends: an item that is being polled reaches an outcome and the *)
(* loop moves on; in a run where no poll ever observes a terminal status   *)
(* or fails, it ends Timeout, with the reason "Waited 60s"; no call other  *)
(* than the queries, the prompts and update-function-configuration is ever *)
(* issued, and the command eventually prints the final summary.            *)
(***************************************************************************)
KnownOps == {"sts", "list", "logs", "select", "confirm", "update"}

InPollLoop(k) == idx = k /\ pc \in {"awaitPoll", "sleeping"}

\* The Reason line of upgrade.ts:471-473 for an item
reasonsOf(n) ==
    {out[j].text : j \in {i \in DOMAIN out :
                            out[i].tag = "Reason" /\ out[i].names = <<n>>}}

C25_PollLoopsEnd ==
    /\ [](/\ OpsIssued \subseteq KnownOps
          /\ pc = "awaitPoll" => elapsed < timeoutMs
          /\ \A n \in DOMAIN itemState :
                itemState[n] = "Timeout" => reasonsOf(n) = {"Waited 60s"})
    /\ \A k \in 1..MaxFunctions :
          InPollLoop(k) ~> (idx > k /\ itemState[toUpgrade[k].name] \in Terminal)
    /\ [](lastPoll.status \in NonTerminalStatus \cup {"none"}) =>
          \A k \in 1..MaxFunctions :
             InPollLoop(k) ~> (idx > k /\ itemState[toUpgrade[k].name] = "Timeout")
    /\ ApplyStarted ~> (ApplyDone /\ "Summary" \in TagsPrinted)

\* Both items of a plan timed out and the summary is printed
C25_Witness ==
    /\ ApplyDone
    /\ Len(toUpgrade) = 2
    /\ \A n \in DOMAIN itemState : itemState[n] = "Timeout"
    /\ "Summary" \in TagsPrinted

(***************************************************************************)
(* C26. The concurrent last-invocation lookups may complete in any order:  *)
(* nothing is selected or planned before the last of them has settled,     *)
(* each function holds the result of the lookup issued for it, and the     *)
(* candidate order, the selection of --all or --include and the plan are   *)
(* the ones that the list-functions answer, the lookup answers and the     *)
(* options determine, whatever the order of completion was.                *)
(***************************************************************************)
\* The timestamp that describe-log-streams answered for the function n
answeredTs(n) ==
    IF lookupAnswer[n].kind = "event" THEN lookupAnswer[n].ts ELSE 0

\* The runtime list-functions answered for the function n
listedRuntime(n) == (CHOOSE f \in Range(functions) : f.Name = n).Runtime

C26_OrderIndependent ==
    /\ pendingLookups # {} =>
          /\ pc = "awaitLookups"
          /\ selectedNames = <<>> /\ planned = <<>>
          /\ toUpgrade = <<>> /\ alreadyOk = <<>>
          /\ OpsIssued \cap {"select", "confirm", "update"} = {}
    /\ DOMAIN lookupAnswer = DOMAIN invocationByName
    /\ \A n \in DOMAIN lookupAnswer : invocationByName[n].ts = answeredTs(n)
    /\ Joined =>
          /\ DOMAIN lookupAnswer = Range(NamesOf(filterFamily(functions, targetFamily)))
          /\ Len(candidateFunctions) = Cardinality(DOMAIN lookupAnswer)
          /\ CandidateNames = DOMAIN lookupAnswer
          /\ \A i, j \in DOMAIN candidateFunctions :
                i < j =>
                   LET a == candidateFunctions[i].Name
                       b == candidateFunctions[j].Name
                   IN \/ answeredTs(a) > answeredTs(b)
                      \/ /\ answeredTs(a) = answeredTs(b)
                         /\ positionIn(functions, a) < positionIn(functions, b)
          /\ (options.all /\ pc # "threw") =>
                selectedNames = NamesOf(candidateFunctions)
          /\ (~options.all /\ options.include # <<>>) =>
                selectedNames = filter(NamesOf(candidateFunctions), Range(options.include))
          /\ planned # <<>> =>
                /\ planNames(planned) = selectedNames
                /\ \A k \in DOMAIN planned :
                      /\ planned[k].changeRuntime <=>
                            ~equalIgnoringCase(listedRuntime(planned[k].name),
                                               options.targetRuntime)
                      /\ planned[k].fromRuntime = listedRuntime(planned[k].name)

\* Two candidates are joined and planned, the one listed second first
\* because its lookup answered the newer timestamp
C26_Witness ==
    /\ Joined
    /\ pc = "awaitConfirm"
    /\ Len(planned) = 2
    /\ answeredTs(candidateFunctions[1].Name) > answeredTs(candidateFunctions[2].Name)
    /\ positionIn(functions, candidateFunctions[1].Name)
          > positionIn(functions, candidateFunctions[2].Name)
    /\ answeredTs(candidateFunctions[2].Name) = 0

(***************************************************************************)
(* The planner run twice: a call that returned without applying anything   *)
(* (nothing selected, nothing to change, or the operator declined) is      *)
(* followed by a second call with the same options on the unchanged        *)
(* account.  Every variable of upgradeRuntimes is a local of the call      *)
(* (upgrade.ts:278-503) and neither module keeps state between calls, so   *)
(* the second call starts from the idle state; firstRun remembers what the *)
(* first call saw and planned.                                             *)
(***************************************************************************)
Reinvoke ==
    /\ pc = "returned"
    /\ ~ApplyStarted
    /\ ~firstRun.ran
    /\ Joined
    /\ firstRun' = [ran |-> TRUE, answers |-> lookupAnswer,
                    candidates |-> candidateFunctions,
                    selected |-> selectedNames,
                    toUpgrade |-> toUpgrade, alreadyOk |-> alreadyOk]
    /\ targetFamily' = <<>>
    /\ pc' = "start"
    /\ threw' = NoError
    /\ functions' = <<>>
    /\ candidateFunctions' = <<>>
    /\ infoByName' = EmptyMap
    /\ pendingLookups' = {}
    /\ invocationByName' = EmptyMap
    /\ lookupAnswer' = EmptyMap
    /\ selectedNames' = <<>>
    /\ planned' = <<>>
    /\ toUpgrade' = <<>>
    /\ alreadyOk' = <<>>
    /\ calls' = <<>>
    /\ out' = <<>>
    /\ UNCHANGED <<options, fleet, idx, results, itemState, elapsed,
                   intervalMs, polled, lastPoll, deployVars>>

InitTwice ==
    /\ options \in OptionSets
    /\ fleet \in FairFleets
    /\ firstRun = NoRun
    /\ DeployIdle
    /\ Idle

NextTwice ==
    \/ Invoke
    \/ CredsResponse
    \/ ListResponse
    \/ LookupResponse
    \/ SelectAnswer
    \/ ConfirmAnswer
    \/ Reinvoke

SpecTwice == InitTwice /\ [][NextTwice]_vars

(***************************************************************************)
(* C27. A second call with the same options on the same inventory snapshot *)
(* (same functions, runtimes, layers and last-invocation answers) sorts    *)
(* the candidates as the first did, selects the same names under --all or  *)
(* --include, and for the same selection builds the same to-upgrade and    *)
(* already-satisfied lists, item by item and in the same order.            *)
(***************************************************************************)
\* The second call has selected and planned
SecondPlanned ==
    /\ firstRun.ran
    /\ Joined
    /\ pc \in {"awaitConfirm", "returned"}

GetRuntimeFamilyCall ==
    /\ pc = "start"
    /\ targetFamily' = getRuntimeFamily(options.targetRuntime)
    /\ pc' = "returned"
    /\ UNCHANGED <<options, fleet, threw, functions, candidateFunctions,
                   infoByName, pendingLookups, invocationByName, lookupAnswer,
                   selectedNames, planned, toUpgrade, alreadyOk, idx, results,
                   itemState, elapsed, intervalMs, polled, lastPoll, firstRun, deployVars,
                   calls, out>>

InitG ==
    /\ options \in [targetRuntime : TokenStrings(MaxTokens), all : {TRUE},
                    include : {<<>>}, layerArn : {""}]
    /\ fleet = <<>>
    /\ firstRun = NoRun
    /\ DeployIdle
    /\ Idle

NextG == GetRuntimeFamilyCall

SpecG == InitG /\ [][NextG]_vars

Separators == Digits \cup {".", "-"}

(***************************************************************************)
(* C28 as stated: for every string getRuntimeFamily returns without        *)
(* throwing python, nodejs or the single value unsupported, and python or  *)
(* nodejs exactly when the lower-cased string starts with that prefix.     *)
(***************************************************************************)
C28_SingleUnsupported ==
    /\ pc # "start" => pc = "returned" /\ threw = NoError
    /\ pc = "returned" =>
          LET s == options.targetRuntime
          IN /\ targetFamily \in
                   {Str_python, Str_nodejs,
                    <<"u", "n", "s", "u", "p", "p", "o", "r", "t", "e", "d">>}
             /\ targetFamily = Str_python <=> RefCoarse(s, Str_python)
             /\ targetFamily = Str_nodejs <=> RefCoarse(s, Str_nodejs)

(***************************************************************************)
(* C28, amended. For every string getRuntimeFamily returns without         *)
(* throwing; the result is python or nodejs exactly when the lower-cased   *)
(* string starts with that prefix, and otherwise a value that is neither:  *)
(* null for the empty string, else the lower-cased string up to its first  *)
(* digit, dot or hyphen, or the whole lower-cased string when it starts    *)
(* with one of these.                                                      *)
(***************************************************************************)
C28_FamilyOrFallback ==
    /\ pc # "start" => pc = "returned" /\ threw = NoError
    /\ pc = "returned" =>
          LET s == options.targetRuntime
              r == targetFamily
              seps == {i \in DOMAIN s : s[i] \in Separators}
              cut == IF seps = {} \/ 1 \in seps THEN Len(s)
                     ELSE (CHOOSE i \in seps : \A j \in seps : i <= j) - 1
          IN /\ r = Str_python <=> RefCoarse(s, Str_python)
             /\ r = Str_nodejs <=> RefCoarse(s, Str_nodejs)
             /\ r \notin {Str_python, Str_nodejs} =>
                   /\ Len(r) = cut
                   /\ \A i \in 1..cut : r[i] = toLowerCaseChar(s[i])
             /\ r = <<>> <=> s = <<>>

\* java11 gives java, which is neither a known family nor "unsupported"
C28_Witness ==
    /\ pc = "returned"
    /\ options.targetRuntime = Str_java11
    /\ targetFamily = <<"j", "a", "v", "a">>

(***************************************************************************)
(* C29. When a get-function-configuration poll itself fails, the wait ends *)
(* at once, although time remains in the budget: no further poll is issued *)
(* for the item, the reason printed is the message of the error, the item  *)
(* ends Failed with a result that is not ok, and the loop moves on.        *)
(***************************************************************************)
C29_Step ==
    /\ (pc = "awaitPoll" /\ lastPoll'.status = "throws") =>
          \A n \in {toUpgrade[idx].name} :
             /\ elapsed < timeoutMs
             /\ ResultPushed
             /\ results'[Len(results')].name = n
             /\ ~results'[Len(results')].ok
             /\ itemState'[n] = "Failed"
             /\ idx' = idx + 1
             /\ pc' \in {"awaitUpdate", "returned"}
             /\ reasonsOf(n)' = {"poll rejected"}
             /\ polled' = polled
    /\ \A n \in DOMAIN itemState :
          "poll rejected" \in reasonsOf(n) =>
             /\ itemState[n] = "Failed"
             /\ itemState'[n] = "Failed"
             /\ ~(PollIssued /\ toUpgrade[idx'].name = n)

C29_PollErrorEndsWait == [][C29_Step]_vars

\* The first poll of the only item failed and the summary counts one failure
C29_Witness ==
    /\ ApplyDone
    /\ Len(toUpgrade) = 1
    /\ lastPoll.status = "throws"
    /\ reasonsOf(toUpgrade[1].name) = {"poll rejected"}
    /\ summaryLine.a = 0
    /\ summaryLine.b = 1

(***************************************************************************)
(* The deployment path: deployLambda (list-layers.ts:300-475) and          *)
(* checkStackExists (list-layers.ts:193-241).  As for upgradeRuntimes, a   *)
(* state is a point where deployLambda is suspended on an await and an     *)
(* action is the arrival of the awaited answer with the synchronous code   *)
(* behind it.  Names are opaque strings, "" when absent; a command line is *)
(* the list of its words.                                                  *)
(***************************************************************************)
DeployOptionSets ==
    [profile : {"", "dev"}, region : {"", "eu-west-1"},
     functionName : {"", "fn"}, statusOnly : BOOLEAN]

\* list-layers.ts:216
validStates == {"CREATE_COMPLETE", "UPDATE_COMPLETE", "UPDATE_ROLLBACK_COMPLETE"}

StackStatuses ==
    validStates \cup {"CREATE_IN_PROGRESS", "ROLLBACK_COMPLETE",
                      "UPDATE_IN_PROGRESS", "DELETE_FAILED"}

\* What `aws cloudformation describe-stacks` can come back with: the command
\* fails with a message (given by the phrases it contains), its output is no
\* JSON, or it is JSON without Stacks, with an empty Stacks or with a stack in
\* some status.
StacksAnswers ==
    {[kind |-> "error", message |-> m, stacks |-> <<>>] :
        m \in {{"ValidationError", "does not exist"}, {"does not exist"},
               {"AccessDenied"}, {"ENOTFOUND"}, {}}}
    \cup {[kind |-> "unparsable", message |-> {"Unexpected token"}, stacks |-> <<>>],
          [kind |-> "noStacks", message |-> {}, stacks |-> <<>>],
          [kind |-> "parsed", message |-> {}, stacks |-> <<>>]}
    \cup {[kind |-> "parsed", message |-> {}, stacks |-> <<st>>] : st \in StackStatuses}

\* String.prototype.includes on an error message
includes(message, phrase) == phrase \in message

\* The mutant of checkStackExists that takes a stack in any status for one
\* that can be synced.
checkStackExists_anyStatus(answer) ==
    IF answer.kind \in {"error", "unparsable"}
    THEN [threw |-> FALSE, value |-> FALSE]
    ELSE IF answer.kind = "parsed" /\ Len(answer.stacks) > 0
         THEN [threw |-> FALSE, value |-> TRUE]
         ELSE [threw |-> FALSE, value |-> FALSE]

\* list-layers.ts:193-241, from the answer of describe-stacks on
checkStackExists(answer) ==
    IF answer.kind \in {"error", "unparsable"}
    THEN \* the catch block of list-layers.ts:228-240
         IF includes(answer.message, "does not exist")
               \/ includes(answer.message, "ValidationError")
         THEN [threw |-> FALSE, value |-> FALSE]
         ELSE [threw |-> FALSE, value |-> FALSE]
    ELSE IF answer.kind = "parsed" /\ Len(answer.stacks) > 0
         THEN IF answer.stacks[1] \in validStates
              THEN [threw |-> FALSE, value |-> TRUE]
              ELSE [threw |-> FALSE, value |-> FALSE]
         ELSE [threw |-> FALSE, value |-> FALSE]

Flag(name, value) == IF value # "" THEN <<name, value>> ELSE <<>>

\* list-layers.ts:371-384
buildSyncCommand(opts, stack, fn) ==
    <<"sam", "sync", "--stack-name", stack, "--code", "--resource-id", fn>>
        \o Flag("--profile", opts.profile)
        \o Flag("--region", opts.region)

\* list-layers.ts:386-411
buildDeployCommand(opts, hasConfig) ==
    <<"sam", "deploy">>
        \o Flag("--profile", opts.profile)
        \o (IF ~hasConfig THEN <<"--guided">> ELSE <<"--no-confirm-changeset">>)
        \o (IF ~hasConfig THEN Flag("--region", opts.region) ELSE <<>>)
        \o (IF ~hasConfig THEN Flag("--stack-name", opts.functionName) ELSE <<>>)

\* The catch block of list-layers.ts:470-474
DeployThrow(error) ==
    /\ dpc' = "threw"
    /\ deployThrew' = error

\* deployLambda is called: list-layers.ts:300-305
DeployInvoke ==
    /\ dpc = "start"
    /\ dpc' = "awaitValidate"
    /\ UNCHANGED <<deployOptions, samConfigExists, functionName, stackName,
                   stacksAnswer, stackExists, deployCommand, deployThrew>>
    /\ UNCHANGED upgradeVars

\* validateDeployOptions settles: list-layers.ts:305-308
ValidateResponse ==
    /\ dpc = "awaitValidate"
    /\ \E ok \in BOOLEAN :
          IF ok THEN dpc' = "awaitTemplateExists" /\ UNCHANGED deployThrew
          ELSE DeployThrow("DeployOptions")
    /\ UNCHANGED <<deployOptions, samConfigExists, functionName, stackName,
                   stacksAnswer, stackExists, deployCommand>>
    /\ UNCHANGED upgradeVars

\* fse.pathExists(templatePath) answers: list-layers.ts:308-331
TemplateExistsResponse ==
    /\ dpc = "awaitTemplateExists"
    /\ \E exists \in BOOLEAN :
          IF ~exists THEN DeployThrow("NoTemplate")
          ELSE /\ dpc' = IF deployOptions.statusOnly THEN "awaitStatus"
                         ELSE "awaitSamVersion"
               /\ UNCHANGED deployThrew
    /\ UNCHANGED <<deployOptions, samConfigExists, functionName, stackName,
                   stacksAnswer, stackExists, deployCommand>>
    /\ UNCHANGED upgradeVars

\* The status-only branch, list-layers.ts:315-326: the client and the
\* template are ready or one of them fails
StatusResponse ==
    /\ dpc = "awaitStatus"
    /\ \E ok \in BOOLEAN :
          IF ok THEN dpc' = "returned" /\ UNCHANGED deployThrew
          ELSE DeployThrow("StatusOnly")
    /\ UNCHANGED <<deployOptions, samConfigExists, functionName, stackName,
                   stacksAnswer, stackExists, deployCommand>>
    /\ UNCHANGED upgradeVars

\* `sam --version` answers: list-layers.ts:331-345
SamVersionResponse ==
    /\ dpc = "awaitSamVersion"
    /\ \E isSamCliInstalled \in BOOLEAN :
          dpc' = IF isSamCliInstalled THEN "awaitSamConfig" ELSE "returned"
    /\ UNCHANGED <<deployOptions, samConfigExists, functionName, stackName,
                   stacksAnswer, stackExists, deployCommand, deployThrew>>
    /\ UNCHANGED upgradeVars

\* checkSamConfigExists answers: list-layers.ts:345-349
SamConfigResponse ==
    /\ dpc = "awaitSamConfig"
    /\ \E exists \in BOOLEAN : samConfigExists' = exists
    /\ dpc' = "awaitParse"
    /\ UNCHANGED <<deployOptions, functionName, stackName, stacksAnswer,
                   stackExists, deployCommand, deployThrew>>
    /\ UNCHANGED upgradeVars

\* parseTemplate settles: list-layers.ts:349-367; without a samconfig.toml
\* the stack is named after the function and describe-stacks is issued
ParseResponse ==
    /\ dpc = "awaitParse"
    /\ \E ok \in BOOLEAN :
          IF ~ok
          THEN /\ DeployThrow("Template")
               /\ UNCHANGED <<functionName, stackName>>
          ELSE LET fn == IF deployOptions.functionName # ""
                         THEN deployOptions.functionName ELSE "templateFn"
               IN /\ functionName' = fn
                  /\ stackName' = fn
                  /\ dpc' = IF samConfigExists THEN "awaitConfigName"
                            ELSE "awaitStacks"
                  /\ UNCHANGED deployThrew
    /\ UNCHANGED <<deployOptions, samConfigExists, stacksAnswer, stackExists,
                   deployCommand>>
    /\ UNCHANGED upgradeVars

\* getStackNameFromSamConfig answers, null being "": list-layers.ts:354-367
ConfigNameResponse ==
    /\ dpc = "awaitConfigName"
    /\ \E configStackName \in {"", "configStack"} :
          stackName' = IF configStackName # "" THEN configStackName ELSE stackName
    /\ dpc' = "awaitStacks"
    /\ UNCHANGED <<deployOptions, samConfigExists, functionName, stacksAnswer,
                   stackExists, deployCommand, deployThrew>>
    /\ UNCHANGED upgradeVars

\* describe-stacks answers inside checkStackExists (list-layers.ts:207),
\* checkStackExists returns and deployLambda builds and spawns the command:
\* list-layers.ts:367-428
StacksResponse ==
    /\ dpc = "awaitStacks"
    /\ \E answer \in StacksAnswers :
          LET check == checkStackExists(answer)
          IN /\ stacksAnswer' = answer
             /\ IF check.threw
                THEN /\ DeployThrow("CheckStackExists")
                     /\ UNCHANGED <<stackExists, deployCommand>>
                ELSE /\ stackExists' = <<check.value>>
                     /\ deployCommand' =
                           IF check.value
                           THEN buildSyncCommand(deployOptions, stackName, functionName)
                           ELSE buildDeployCommand(deployOptions, samConfigExists)
                     /\ dpc' = "awaitSpawn"
                     /\ UNCHANGED deployThrew
    /\ UNCHANGED <<deployOptions, samConfigExists, functionName, stackName>>
    /\ UNCHANGED upgradeVars

\* The SAM process exits or cannot be started: list-layers.ts:431-469
SpawnExit ==
    /\ dpc = "awaitSpawn"
    /\ \E code \in {0, 1} :
          IF code = 0 THEN dpc' = "returned" /\ UNCHANGED deployThrew
          ELSE DeployThrow("SamExit")
    /\ UNCHANGED <<deployOptions, samConfigExists, functionName, stackName,
                   stacksAnswer, stackExists, deployCommand>>
    /\ UNCHANGED upgradeVars

InitD ==
    /\ options \in [targetRuntime : {Str_python3_12}, all : {TRUE},
                    include : {<<>>}, layerArn : {""}]
    /\ fleet = <<>>
    /\ firstRun = NoRun
    /\ Idle
    /\ deployOptions \in DeployOptionSets
    /\ DeployStart

NextD ==
    \/ DeployInvoke
    \/ ValidateResponse
    \/ TemplateExistsResponse
    \/ StatusResponse
    \/ SamVersionResponse
    \/ SamConfigResponse
    \/ ParseResponse
    \/ ConfigNameResponse
    \/ StacksResponse
    \/ SpawnExit

SpecD == InitD /\ [][NextD]_vars

\* checkStackExists has returned
StackChecked == stacksAnswer.kind # "none"

Prefix(s, n) == SubSeq(s, 1, n)

(***************************************************************************)
(* C30. checkStackExists never throws: it returns true only when           *)
(* describe-stacks succeeded and the first stack's status is               *)
(* CREATE_COMPLETE, UPDATE_COMPLETE or UPDATE_ROLLBACK_COMPLETE; every     *)
(* error of the query, whether it says that the stack does not exist or is *)
(* any other error or an unparsable output, gives false; and deployLambda  *)
(* then builds a sam deploy command, a sam sync command only when          *)
(* checkStackExists returned true.                                         *)
(***************************************************************************)
C30_StackCheck ==
    /\ deployThrew # "CheckStackExists"
    /\ dpc = "threw" => deployThrew \in {"DeployOptions", "NoTemplate", "StatusOnly",
                                        "Template", "SamExit"}
    /\ StackChecked <=> stackExists # <<>>
    /\ StackChecked =>
          /\ dpc \in {"awaitSpawn", "returned"} \/ deployThrew = "SamExit"
          /\ stackExists = <<TRUE>> <=>
                /\ stacksAnswer.kind = "parsed"
                /\ stacksAnswer.stacks \in
                      {<<"CREATE_COMPLETE">>, <<"UPDATE_COMPLETE">>,
                       <<"UPDATE_ROLLBACK_COMPLETE">>}
          /\ stacksAnswer.kind \in {"error", "unparsable"} => stackExists = <<FALSE>>
          /\ stackExists \in {<<TRUE>>, <<FALSE>>}
          /\ stackExists = <<TRUE>> <=> Prefix(deployCommand, 2) = <<"sam", "sync">>
          /\ stackExists = <<FALSE>> <=> Prefix(deployCommand, 2) = <<"sam", "deploy">>
    /\ ~StackChecked => deployCommand = <<>>

\* describe-stacks was refused for missing permissions, the check returned
\* false and a sam deploy command ran to its end
C30_Witness ==
    /\ dpc = "returned"
    /\ stacksAnswer.kind = "error"
    /\ stacksAnswer.message = {"AccessDenied"}
    /\ stackExists = <<FALSE>>
    /\ Prefix(deployCommand, 2) = <<"sam", "deploy">>

====
